---- MODULE Spec2Model ----
(***************************************************************************)
(* NovaAvatar: job orchestration (services/orchestrator.py), admission     *)
(* control (api/middleware/rate_limiter.py) and conversation assembly      *)
(* (services/conversation_orchestrator.py, services/video_stitcher.py).    *)
(*                                                                         *)
(* External collaborators (script, image, speech, compositor, render,      *)
(* dialogue producers, ffmpeg, the file system, Redis) are black boxes:    *)
(* every call either returns or raises.                                    *)
(*                                                                         *)
(* Nine specifications share the module: Spec (the job pipeline with its   *)
(* review queue), SpecRate (the rate limiter), SpecConv (a conversation    *)
(* run) and SpecConvFair (the same with every awaited call ending),        *)
(* SpecStitch (the video stitcher), SpecShared (stitcher calls that share  *)
(* an output directory), SpecClient (the client identifier of a request),  *)
(* SpecStore (jobs.json written and read back) and SpecBatch               *)
(* (batch_create_videos).  Each leaves the other parts' variables          *)
(* unchanged.                                                              *)
(***************************************************************************)
EXTENDS Integers, Sequences, FiniteSets, TLC

(***************************************************************************)
(* Bounds of the model.                                                    *)
(***************************************************************************)
\* number of jobs submitted to one PipelineOrchestrator
NumJobs == 1
\* number of file-system faults (failed writes, failed unlinks) injected
MaxFaults == 1

\* worker processes sharing the Redis backend (requests in flight at once)
NumWorkers == 2
\* client identities seen by the rate limiter
NumClients == 1
\* requests_per_minute the limiter is constructed with
Limit == 2
\* requests issued to the rate limiter
MaxRequests == 3
\* clock advances
MaxTicks == 1

\* conversations created
NumConvs == 1
\* exchanges the dialogue generator returns at most
MaxLines == 3

\* segments given to the stitcher at most
MaxClips == 4
\* longest clip (in time units)
MaxDur == 2

\* content items given to batch_create_videos
MaxBatch == 2

\* longest X-Forwarded-For header value (in characters)
MaxHeaderLen == 3

\* callers of stitch_conversation that run at the same time
NumCallers == 3

\* self.window_size = 60 (seconds)
WindowSize == 60

JobIds == 1..NumJobs
Workers == 1..NumWorkers
Clients == 1..NumClients
Convs == 1..NumConvs
\* the num_exchanges arguments tried
RequestedCounts == {1, MaxLines}
\* clip durations and the transition_duration arguments tried
Durations == 1..MaxDur
TransitionDurations == (0 - 1)..(MaxDur + 1)
\* the layout arguments tried: the three create_split_screen knows, and another
Layouts == {"horizontal", "vertical", "grid", "pip"}
\* the clock advances by a second or by a window
TimeSteps == {1, WindowSize}

VARIABLES
    \* ---- PipelineOrchestrator (services/orchestrator.py) ----
    auto_approve,     \* self.auto_approve
    use_compositing,  \* env USE_AVATAR_COMPOSITING
    jobs,             \* keys of self.jobs
    job,              \* the VideoJob objects (also those detached by delete)
    jobs_file,        \* content of storage/jobs.json
    queue_dir,        \* content of storage/queue/<id>.json
    files,            \* artifact files on disk: <<id, kind>>
    pc,               \* position of each create_video_from_content task
    with_callback,    \* whether callers pass a progress_callback (frontend, tests) or none (API server)
    faults,           \* file-system faults injected so far
    lastCall,         \* the response of the caller operation just served
    deleted,          \* ids for which delete_video returned
    removals,         \* number of unlinks of each id's queue file
    approvals,        \* number of approve_video calls that returned the job
    enqueued,         \* number of queue files written for each id
    lateOutputs,      \* stage outputs consumed after the id was deleted
    \* ---- RateLimiter (api/middleware/rate_limiter.py) ----
    backend,          \* "redis" (self.redis_client set) or "memory"
    now,              \* time.time()
    ticks,            \* clock advances so far
    requests,         \* self.requests: client -> list of timestamps
    zset,             \* Redis sorted set rate_limit:<client>: its members
    zexpire,          \* expiry time of that Redis key, -1 for none
    rpc,              \* position of each worker's dispatch
    rclient,          \* the client of the request a worker is serving
    log,              \* per client, the decisions taken, in order
    redis_down,       \* Redis has become unreachable (and stays so)
    backend_error,    \* a Redis failure reached the caller as an error
    exempt_requests,  \* requests for an exempt path that dispatch has handled
    \* ---- ConversationOrchestrator (services/conversation_orchestrator.py) ----
    cpc,              \* position of each create_conversation task
    conversation,     \* the Conversation object of the task
    db_conversation,  \* the committed conversations row
    stitch_videos,    \* the stitch_videos argument
    add_transitions,  \* the add_transitions argument
    exchanges,        \* len(dialogue.exchanges)
    lines,            \* the DialogueLine objects of the session, in creation order
    db_lines,         \* the committed dialogue_lines rows
    video_segments,   \* the local list video_segments
    handed,           \* the segments VideoStitcher.stitch_conversation was given
    \* ---- VideoStitcher (services/video_stitcher.py) ----
    spc,              \* position of the stitch_conversation call
    segments,         \* the segments argument: the duration of each clip
    all_exist,        \* every seg.video_path is an existing file
    transition_duration, \* the transition_duration argument
    with_transitions, \* the add_transitions argument of stitch_conversation
    layout,           \* the layout argument of create_split_screen, "none" before a call
    command,          \* the ffmpeg command being run
    xfades,           \* the crossfade commands issued so far
    output_len,       \* duration of the file ffmpeg wrote, -1 for none
    stitched,         \* the StitchedVideo returned, total_duration -1 for none
    concat_file,      \* concat_list.txt exists
    sfault,           \* ffmpeg or ffprobe failed on a well-formed command
    \* ---- RateLimiter._get_client_id ----
    api_key,          \* request.headers.get("X-API-Key")
    forwarded,        \* request.headers.get("X-Forwarded-For")
    client,           \* request.client (its host)
    client_id,        \* the identifier returned, <<>> before the call
    \* ---- PipelineOrchestrator._save_jobs / _load_jobs ----
    store_pc,         \* "idle", then "saved" or "save_failed", then "loaded"
    store_saved,      \* the _save_jobs call wrote the whole file
    store_jobs,       \* self.jobs of the orchestrator that saves
    store_file,       \* jobs.json: missing, JSON text, or cut short
    store_loaded,     \* self.jobs of the orchestrator constructed afterwards
    \* ---- PipelineOrchestrator.batch_create_videos ----
    batch_pc,         \* "idle", "loop" or "returned"
    batch_i,          \* the item the loop is at (1-based)
    batch_jobs,       \* the local list jobs: the item and the VideoJob of each entry
    batch_outcome,    \* per item: what create_video_from_content did
    \* ---- concurrent VideoStitcher calls on one output directory ----
    asm_pc,           \* position of each caller's stitch_conversation
    asm_out,          \* whose clips each caller's output file holds, 0: no file
    concat_list       \* whose clips concat_list.txt lists, 0: no such file

jobVars == <<auto_approve, use_compositing, jobs, job, jobs_file, queue_dir,
             files, pc, with_callback, faults, lastCall, deleted, removals,
             approvals, enqueued, lateOutputs>>

rateVars == <<backend, now, ticks, requests, zset, zexpire, rpc, rclient, log,
              redis_down, backend_error, exempt_requests>>

convVars == <<cpc, conversation, db_conversation, stitch_videos, add_transitions,
              exchanges, lines, db_lines, video_segments, handed>>

stitchVars == <<spc, segments, all_exist, transition_duration, with_transitions,
                layout, command, xfades, output_len, stitched, concat_file,
                sfault>>

clientVars == <<api_key, forwarded, client, client_id>>

storeVars == <<store_pc, store_saved, store_jobs, store_file, store_loaded>>

batchVars == <<batch_pc, batch_i, batch_jobs, batch_outcome>>

sharedVars == <<asm_pc, asm_out, concat_list>>

vars == <<jobVars, rateVars, convVars, stitchVars, clientVars, storeVars,
          batchVars, sharedVars>>

\* what the steps of one component leave alone
notJobs == <<rateVars, convVars, stitchVars, clientVars, storeVars,
    batchVars, sharedVars>>
notRate == <<jobVars, convVars, stitchVars, clientVars, storeVars,
    batchVars, sharedVars>>
notConv == <<jobVars, rateVars, stitchVars, clientVars, storeVars,
    batchVars, sharedVars>>
notStitch == <<jobVars, rateVars, convVars, clientVars, storeVars,
    batchVars, sharedVars>>
notClient == <<jobVars, rateVars, convVars, stitchVars, storeVars,
    batchVars, sharedVars>>
notStore == <<jobVars, rateVars, convVars, stitchVars, clientVars,
    batchVars, sharedVars>>
notBatch == <<jobVars, rateVars, convVars, stitchVars, clientVars, storeVars,
    sharedVars>>
notShared == <<jobVars, rateVars, convVars, stitchVars, clientVars, storeVars,
    batchVars>>

(***************************************************************************)
(* VideoJob records.  An artifact reference is modelled by whether it is   *)
(* set; error is "none" for None.                                          *)
(***************************************************************************)
NoJob == [status |-> "none", progress |-> 0, script |-> FALSE,
          background_image |-> FALSE, audio_file |-> FALSE,
          video_file |-> FALSE, error |-> "none", updated_at |-> "none"]

\* VideoJob(job_id=..., content_item=..., status=GENERATING_SCRIPT)
\* (updated_at takes its default, the time of creation; the later values of
\* updated_at are named after the statement that assigns datetime.now())
NewJob == [NoJob EXCEPT !.status = "generating_script", !.updated_at = "created"]

\* an except-handler that records no error
FailedNoError(rec, err) == [rec EXCEPT !.status = "failed", !.updated_at = "failed"]

\* an except-handler that leaves the status as it is
FailedKeepsStatus(rec, err) == [rec EXCEPT !.error = err, !.updated_at = "failed"]

\* an except-handler that drops the outputs of the stages already done
FailedClearsOutputs(rec, err) ==
    [rec EXCEPT !.status = "failed", !.error = err, !.script = FALSE,
                !.background_image = FALSE, !.audio_file = FALSE,
                !.video_file = FALSE, !.updated_at = "failed"]

\* except-handler of create_video_from_content
Failed(rec, err) ==
    [rec EXCEPT !.status = "failed", !.error = err, !.updated_at = "failed"]

\* job.script = ...; status = GENERATING_IMAGE; progress = 30
ScriptDone(rec) ==
    [rec EXCEPT !.script = TRUE, !.status = "generating_image", !.progress = 30]

\* job.background_image = ...; status = GENERATING_AUDIO; progress = 50
ImageDone(rec) ==
    [rec EXCEPT !.background_image = TRUE, !.status = "generating_audio",
                !.progress = 50]

\* job.audio_file = ...; status = GENERATING_VIDEO; progress = 60
AudioDone(rec) ==
    [rec EXCEPT !.audio_file = TRUE, !.status = "generating_video",
                !.progress = 60]

\* a compositing stage that reports less than the audio stage did
CompositeDoneLower(rec) == [rec EXCEPT !.progress = 50]

\* job.progress = 70 (after compositing, or directly when it is disabled)
CompositeDone(rec) == [rec EXCEPT !.progress = 70]

\* a pipeline that marks every finished job completed
FinalStatusCompleted(auto) == "completed"

\* the status chosen at the end of the pipeline
FinalStatus(auto) == IF auto THEN "completed" ELSE "queued_for_review"

\* job.video_file = ...; progress = 100; status = COMPLETED | QUEUED_FOR_REVIEW
VideoDone(rec, auto) ==
    [rec EXCEPT !.video_file = TRUE, !.progress = 100,
                !.status = FinalStatus(auto)]

\* job.updated_at = datetime.now() (line 325), after _add_to_review_queue
FinalUpdate(rec) == [rec EXCEPT !.updated_at = "finished"]

\* _save_jobs: dump self.jobs to jobs.json; a failure is logged and swallowed
Persist(file, js, objs, ok) ==
    IF ok THEN [k \in JobIds |-> IF k \in js THEN objs[k] ELSE NoJob]
    ELSE file

Cost(ok) == IF ok THEN 0 ELSE 1

\* no API handler has a response pending
NoCall == [op |-> "none", id |-> 0, res |-> "none"]

\* no task and no API handler is in the middle of a synchronous slice
\* (single event loop)
Quiet ==
    /\ \A k \in JobIds : pc[k] \notin {"created", "notify"}
    /\ lastCall = NoCall

\* a task is awaiting a collaborator
Running(j) == pc[j] \in {"fetch", "script", "image", "audio", "composite", "video"}

InitJobs ==
    /\ auto_approve \in BOOLEAN
    /\ use_compositing \in BOOLEAN
    /\ jobs = {}
    /\ job = [j \in JobIds |-> NoJob]
    /\ jobs_file = [j \in JobIds |-> NoJob]
    /\ queue_dir = [j \in JobIds |-> NoJob]
    /\ files = {}
    /\ pc = [j \in JobIds |-> "idle"]
    /\ with_callback \in BOOLEAN
    /\ faults = 0
    /\ lastCall = NoCall
    /\ deleted = {}
    /\ removals = [j \in JobIds |-> 0]
    /\ approvals = [j \in JobIds |-> 0]
    /\ enqueued = [j \in JobIds |-> 0]
    /\ lateOutputs = [j \in JobIds |-> 0]

(***************************************************************************)
(* One synchronous slice of create_video_from_content: jobs.json holds     *)
(* file0 (after extra faults already taken in the slice), the job object   *)
(* has been mutated to rec1, _save_jobs runs (ok1), then the progress      *)
(* callback of the checkpoint is invoked; if it raises (r) the             *)
(* except-handler marks the job failed and saves again (ok2).              *)
(***************************************************************************)
Slice(j, js, file0, extra, rec1, nextpc, ok1, r, ok2) ==
    LET objs1 == [job EXCEPT ![j] = rec1]
        f1    == Persist(file0, js, objs1, ok1)
        objs2 == [job EXCEPT ![j] = Failed(rec1, "callback")]
    IN  /\ r => with_callback
        /\ ~r => ok2
        /\ faults + extra + Cost(ok1) + Cost(ok2) <= MaxFaults
        /\ faults' = faults + extra + Cost(ok1) + Cost(ok2)
        /\ job' = IF r THEN objs2 ELSE objs1
        /\ jobs_file' = IF r THEN Persist(f1, js, objs2, ok2) ELSE f1
        /\ pc' = [pc EXCEPT ![j] = IF r THEN "raised" ELSE nextpc]

\* a stage output is consumed; counted when the id was deleted before
\* (2 stands for two or more)
Consume(j) ==
    lateOutputs' = IF j \in deleted /\ lateOutputs[j] < 2
                   THEN [lateOutputs EXCEPT ![j] = @ + 1] ELSE lateOutputs

\* lines 193-204: create the job and save it
Create(j) ==
    /\ pc[j] = "idle"
    /\ \A k \in JobIds : k < j => pc[k] # "idle"
    /\ Quiet
    /\ jobs' = jobs \cup {j}
    /\ \E ok1 \in BOOLEAN :
          Slice(j, jobs', jobs_file, 0, NewJob, "created", ok1, FALSE, TRUE)
    /\ UNCHANGED <<auto_approve, use_compositing, with_callback, queue_dir,
                   files, deleted, removals, approvals, enqueued, lateOutputs>>
    /\ lastCall' = NoCall
    /\ UNCHANGED notJobs

\* lines 206-221, in the same synchronous slice as Create: the checkpoint
\* callback (5 before fetching the article, else 10), then the first await
Begin(j) ==
    /\ pc[j] = "created"
    /\ \E fetch \in BOOLEAN, r \in BOOLEAN, ok2 \in BOOLEAN :
          /\ r => with_callback
          /\ ~r => ok2
          /\ faults + Cost(ok2) <= MaxFaults
          /\ faults' = faults + Cost(ok2)
          /\ job' = IF r THEN [job EXCEPT ![j] = Failed(job[j], "callback")]
                    ELSE job
          /\ jobs_file' = IF r THEN Persist(jobs_file, jobs, job', ok2)
                          ELSE jobs_file
          /\ pc' = [pc EXCEPT ![j] = IF r THEN "raised"
                                     ELSE IF fetch THEN "fetch" ELSE "script"]
    /\ UNCHANGED <<auto_approve, use_compositing, with_callback, jobs,
                   queue_dir, files, deleted, removals, approvals, enqueued,
                   lateOutputs>>
    /\ lastCall' = NoCall
    /\ UNCHANGED notJobs

\* lines 334-344: a collaborator call raised
StageFails(j) ==
    /\ Running(j)
    /\ Quiet
    /\ \E ok \in BOOLEAN :
          /\ faults + Cost(ok) <= MaxFaults
          /\ faults' = faults + Cost(ok)
          /\ job' = [job EXCEPT ![j] = Failed(job[j], "collaborator")]
          /\ jobs_file' = Persist(jobs_file, jobs, job', ok)
    /\ pc' = [pc EXCEPT ![j] = "raised"]
    /\ UNCHANGED <<auto_approve, use_compositing, jobs, queue_dir, files, with_callback,
                    deleted, removals, approvals, enqueued,
                   lateOutputs>>
    /\ lastCall' = NoCall
    /\ UNCHANGED notJobs

\* lines 213-221: fetch_full_article returned
FetchReturns(j) ==
    /\ pc[j] = "fetch"
    /\ Quiet
    /\ \E r \in BOOLEAN, ok2 \in BOOLEAN :
          /\ r => with_callback
          /\ ~r => ok2
          /\ faults + Cost(ok2) <= MaxFaults
          /\ faults' = faults + Cost(ok2)
          /\ job' = IF r THEN [job EXCEPT ![j] = Failed(job[j], "callback")]
                    ELSE job
          /\ jobs_file' = IF r THEN Persist(jobs_file, jobs, job', ok2)
                          ELSE jobs_file
          /\ pc' = [pc EXCEPT ![j] = IF r THEN "raised" ELSE "script"]
    /\ UNCHANGED <<auto_approve, use_compositing, jobs, queue_dir, files, with_callback,
                    deleted, removals, approvals, enqueued,
                   lateOutputs>>
    /\ lastCall' = NoCall
    /\ UNCHANGED notJobs

\* lines 226-241: generate_script returned
ScriptReturns(j) ==
    /\ pc[j] = "script"
    /\ Quiet
    /\ \E ok1 \in BOOLEAN, r \in BOOLEAN, ok2 \in BOOLEAN :
          Slice(j, jobs, jobs_file, 0, ScriptDone(job[j]), "image", ok1, r, ok2)
    /\ Consume(j)
    /\ UNCHANGED <<auto_approve, use_compositing, jobs, queue_dir, files, with_callback,
                    deleted, removals, approvals, enqueued>>
    /\ lastCall' = NoCall
    /\ UNCHANGED notJobs

\* lines 247-260: generate_background returned
ImageReturns(j) ==
    /\ pc[j] = "image"
    /\ Quiet
    /\ \E ok1 \in BOOLEAN, r \in BOOLEAN, ok2 \in BOOLEAN :
          Slice(j, jobs, jobs_file, 0, ImageDone(job[j]), "audio", ok1, r, ok2)
    /\ files' = files \cup {<<j, "background">>}
    /\ Consume(j)
    /\ UNCHANGED <<auto_approve, use_compositing, jobs, queue_dir, with_callback,
                    deleted, removals, approvals, enqueued>>
    /\ lastCall' = NoCall
    /\ UNCHANGED notJobs

\* lines 262-300: generate_speech returned and is saved (ok0); with
\* compositing the task next awaits the compositor, without it progress
\* goes to 70 and is saved again in the same slice
AudioReturns(j) ==
    /\ pc[j] = "audio"
    /\ Quiet
    /\ \E ok0 \in BOOLEAN, ok1 \in BOOLEAN, r \in BOOLEAN, ok2 \in BOOLEAN :
          IF use_compositing
          THEN /\ ok0
               /\ Slice(j, jobs, jobs_file, 0, AudioDone(job[j]), "composite",
                        ok1, r, ok2)
          ELSE Slice(j, jobs,
                     Persist(jobs_file, jobs,
                             [job EXCEPT ![j] = AudioDone(job[j])], ok0),
                     Cost(ok0), CompositeDone(AudioDone(job[j])), "video",
                     ok1, r, ok2)
    /\ files' = files \cup {<<j, "audio">>}
    /\ Consume(j)
    /\ UNCHANGED <<auto_approve, use_compositing, jobs, queue_dir, with_callback,
                   deleted, removals, approvals, enqueued>>
    /\ lastCall' = NoCall
    /\ UNCHANGED notJobs

\* lines 282-300: composite_avatar returned
CompositeReturns(j) ==
    /\ pc[j] = "composite"
    /\ Quiet
    /\ \E ok1 \in BOOLEAN, r \in BOOLEAN, ok2 \in BOOLEAN :
          Slice(j, jobs, jobs_file, 0, CompositeDone(job[j]), "video", ok1, r, ok2)
    /\ files' = files \cup {<<j, "composite">>}
    /\ Consume(j)
    /\ UNCHANGED <<auto_approve, use_compositing, jobs, queue_dir, with_callback,
                    deleted, removals, approvals, enqueued>>
    /\ lastCall' = NoCall
    /\ UNCHANGED notJobs

\* _add_to_review_queue: write queue/<id>.json; a failure is logged and swallowed
AddToReviewQueue(q, j, rec, ok) == IF ok THEN [q EXCEPT ![j] = rec] ELSE q

\* lines 305-326: generate_video returned; status, review queue, save
VideoReturns(j) ==
    /\ pc[j] = "video"
    /\ Quiet
    /\ \E okq \in BOOLEAN, ok1 \in BOOLEAN :
          LET rec1 == VideoDone(job[j], auto_approve)
              enq  == rec1.status = "queued_for_review"
          IN  /\ ~enq => okq
              /\ faults + Cost(okq) + Cost(ok1) <= MaxFaults
              /\ faults' = faults + Cost(okq) + Cost(ok1)
              /\ job' = [job EXCEPT ![j] = FinalUpdate(rec1)]
              /\ queue_dir' = IF enq THEN AddToReviewQueue(queue_dir, j, rec1, okq)
                              ELSE queue_dir
              /\ enqueued' = IF enq /\ okq
                             THEN [enqueued EXCEPT ![j] = @ + 1] ELSE enqueued
              /\ jobs_file' = Persist(jobs_file, jobs, job', ok1)
    /\ files' = files \cup {<<j, "video">>}
    /\ pc' = [pc EXCEPT ![j] = IF with_callback THEN "notify" ELSE "done"]
    /\ Consume(j)
    /\ UNCHANGED <<auto_approve, use_compositing, jobs, with_callback, 
                   deleted, removals, approvals>>
    /\ lastCall' = NoCall
    /\ UNCHANGED notJobs

\* lines 328-344: progress_callback(100, "Complete!") inside the try block
Notify(j) ==
    /\ pc[j] = "notify"
    /\ \E r \in BOOLEAN, ok2 \in BOOLEAN :
          /\ ~r => ok2
          /\ faults + Cost(ok2) <= MaxFaults
          /\ faults' = faults + Cost(ok2)
          /\ job' = IF r THEN [job EXCEPT ![j] = Failed(job[j], "callback")]
                    ELSE job
          /\ jobs_file' = IF r THEN Persist(jobs_file, jobs, job', ok2)
                          ELSE jobs_file
          /\ pc' = [pc EXCEPT ![j] = IF r THEN "raised" ELSE "done"]
    /\ UNCHANGED <<auto_approve, use_compositing, jobs, queue_dir, files, with_callback,
                    deleted, removals, approvals, enqueued,
                   lateOutputs>>
    /\ lastCall' = NoCall
    /\ UNCHANGED notJobs

\* an approve_video without the status test
ApproveGuardNone(rec) == TRUE

\* an approve_video that accepts a completed job again
ApproveGuardTerminal(rec) == rec.status \in {"queued_for_review", "completed"}

\* approve_video's status test
ApproveGuard(rec) == rec.status = "queued_for_review"

\* the outcome of approve_video: ValueError("Job not found"),
\* ValueError("Job not in review queue"), or the job is returned
ApproveResult(j) ==
    IF j \notin jobs THEN "not_found"
    ELSE IF ~ApproveGuard(job[j]) THEN "state_error"
    ELSE "ok"

\* an approve_video that tests the status only after it has updated the job
RejectsNotFound(res) == res = "not_found"

\* lines 384-388: both ValueErrors are raised before anything is changed
Rejects(res) == res # "ok"

\* approve_video (lines 379-402), called from the API handler without suspension
Approve(j) ==
    /\ Quiet
    /\ lastCall' = [op |-> "approve", id |-> j, res |-> ApproveResult(j)]
    /\ IF Rejects(ApproveResult(j))
       THEN UNCHANGED <<job, jobs_file, queue_dir, removals, approvals, faults>>
       ELSE \E ok \in BOOLEAN :
            /\ faults + Cost(ok) <= MaxFaults
            /\ faults' = faults + Cost(ok)
            /\ job' = [job EXCEPT ![j].status = "completed",
                                   ![j].updated_at = "approved"]
            /\ jobs_file' = Persist(jobs_file, jobs, job', ok)
            /\ queue_dir' = [queue_dir EXCEPT ![j] = NoJob]
            /\ removals' = IF queue_dir[j] # NoJob
                           THEN [removals EXCEPT ![j] = @ + 1] ELSE removals
            /\ approvals' = [approvals EXCEPT ![j] = @ + 1]
    /\ UNCHANGED <<auto_approve, use_compositing, jobs, files, pc,
                   with_callback, deleted, enqueued, lateOutputs>>
    /\ UNCHANGED notJobs

\* files_to_delete of delete_video: the references held by the job
FilesToDelete(j, rec) ==
    {f \in {<<j, "background">>, <<j, "audio">>, <<j, "video">>} :
        \/ f[2] = "background" /\ rec.background_image
        \/ f[2] = "audio" /\ rec.audio_file
        \/ f[2] = "video" /\ rec.video_file}

\* delete_video (lines 404-436)
Delete(j) ==
    /\ Quiet
    /\ IF j \notin jobs
       THEN /\ lastCall' = [op |-> "delete", id |-> j, res |-> "not_found"]
            /\ UNCHANGED <<jobs, job, jobs_file, queue_dir, files, removals,
                           deleted, faults>>
       ELSE \E ok \in BOOLEAN,
               kept \in {{}} \cup {{f} : f \in FilesToDelete(j, job[j]) \cap files} :
            /\ faults + Cost(ok) + Cardinality(kept) <= MaxFaults
            /\ faults' = faults + Cost(ok) + Cardinality(kept)
            /\ files' = (files \ FilesToDelete(j, job[j])) \cup kept
            /\ jobs' = jobs \ {j}
            \* the object lives on only while its pipeline task still holds it
            /\ job' = IF Running(j) THEN job ELSE [job EXCEPT ![j] = NoJob]
            /\ jobs_file' = Persist(jobs_file, jobs', job, ok)
            /\ queue_dir' = [queue_dir EXCEPT ![j] = NoJob]
            /\ removals' = IF queue_dir[j] # NoJob
                           THEN [removals EXCEPT ![j] = @ + 1] ELSE removals
            /\ deleted' = deleted \cup {j}
            /\ lastCall' = [op |-> "delete", id |-> j, res |-> "ok"]
    /\ UNCHANGED <<auto_approve, use_compositing, pc, with_callback, approvals,
                   enqueued, lateOutputs>>
    /\ UNCHANGED notJobs

\* the API handler of approve or delete returns its response
Respond ==
    /\ lastCall # NoCall
    /\ lastCall' = NoCall
    /\ UNCHANGED <<auto_approve, use_compositing, jobs, job, jobs_file, queue_dir,
                   files, pc, with_callback, faults, deleted, removals, approvals,
                   enqueued, lateOutputs>>
    /\ UNCHANGED notJobs

\* get_job_status (lines 438-440): a read of self.jobs; NoJob stands for None
GetJobStatus(j) == IF j \in jobs THEN job[j] ELSE NoJob

NextJobs ==
    \/ \E j \in JobIds :
            \/ Create(j)
            \/ Begin(j)
            \/ StageFails(j)
            \/ FetchReturns(j)
            \/ ScriptReturns(j)
            \/ ImageReturns(j)
            \/ AudioReturns(j)
            \/ CompositeReturns(j)
            \/ VideoReturns(j)
            \/ Notify(j)
            \/ Approve(j)
            \/ Delete(j)
    \/ Respond

(***************************************************************************)
(* RateLimiter.  The in-memory backend lives in one process: dispatch runs *)
(* _is_allowed and _record_request without suspending, so a request is one *)
(* step.  The Redis backend is shared by worker processes: the check (one  *)
(* MULTI/EXEC pipeline) and the record (one ZADD) are separate commands,   *)
(* and other workers' commands and the clock may come between them.        *)
(* A member str(now) of the sorted set is identified with the time now     *)
(* (str is injective on floats); adding a member that exists keeps one.    *)
(***************************************************************************)
InitRate ==
    /\ backend \in {"memory", "redis"}
    /\ now = 0
    /\ ticks = 0
    /\ requests = [c \in Clients |-> <<>>]
    /\ zset = [c \in Clients |-> {}]
    /\ zexpire = [c \in Clients |-> -1]
    /\ rpc = [p \in Workers |-> "idle"]
    /\ rclient = [p \in Workers |-> 1]
    /\ log = [c \in Clients |-> <<>>]
    /\ redis_down = FALSE
    /\ backend_error = FALSE
    /\ exempt_requests = 0

\* the rate limiter is not exercised
IdleRate ==
    /\ InitRate
    /\ backend = "memory"

\* requests issued so far: those that went through the admission check and
\* those for exempt paths
Issued == LET RECURSIVE Sum(_)
              Sum(c) == IF c = 0 THEN 0 ELSE Len(log[c]) + Sum(c - 1)
          IN  Sum(NumClients) + exempt_requests

\* line 51: the paths that dispatch hands to call_next at once
ExemptPaths == {"/health", "/metrics", "/docs", "/redoc", "/openapi.json"}

\* request.url.path of a request: the first or the last exempt path, or an
\* API route
Paths == {"/health", "/openapi.json", "/api/generate"}

\* a dispatch that rate-limits every path
ExemptNone(path) == FALSE

\* if request.url.path in ["/health", "/metrics", "/docs", "/redoc",
\* "/openapi.json"]: return await call_next(request)
Exempt(path) == path \in ExemptPaths

\* the count of requests for exempt paths after one for `path`
CountPath(path) == IF path \in ExemptPaths THEN exempt_requests + 1
                   ELSE exempt_requests

\* the comprehension of _is_allowed_memory: keep req_time > window_start
CleanOld(ts, t) == SelectSeq(ts, LAMBDA x : x > t - WindowSize)

\* _is_allowed_memory's answer on the cleaned list
AllowedMemory(ts) == Len(ts) < Limit

\* _record_request_memory: self.requests[client_id].append(time.time())
RecordMemory(ts, t) == Append(ts, t)

\* the Redis key as a command at time t finds it: gone once expired
Live(c, t) == IF zexpire[c] # -1 /\ t >= zexpire[c] THEN {} ELSE zset[c]

\* ZREMRANGEBYSCORE key 0 window_start: drop the scores in [0, window_start]
ZRemRangeByScore(z, t) == {x \in z : ~(0 <= x /\ x <= t - WindowSize)}

\* _is_allowed_redis's answer: ZCARD < requests_per_minute
AllowedRedis(z) == Cardinality(z) < Limit

\* ZADD key {str(now): now}
ZAdd(z, t) == z \cup {t}

\* dispatch with the in-memory backend (lines 47-70, 124-135, 154-156);
\* for an exempt path call_next is all it does (lines 51-52)
DispatchMemory(c) ==
    /\ backend = "memory"
    /\ \A k \in Clients : k < c => log[k] # <<>>
    /\ Issued < MaxRequests
    /\ \E path \in Paths :
          /\ exempt_requests' = CountPath(path)
          /\ IF Exempt(path)
             THEN UNCHANGED <<requests, log>>
             ELSE LET kept == CleanOld(requests[c], now)
                      ok   == AllowedMemory(kept)
                  IN  /\ requests' = [requests EXCEPT
                              ![c] = IF ok THEN RecordMemory(kept, now) ELSE kept]
                      /\ log' = [log EXCEPT
                              ![c] = Append(@, [t |-> now, ok |-> ok, solo |-> TRUE,
                                                failed |-> FALSE])]
    /\ UNCHANGED <<backend, now, ticks, zset, zexpire, rpc, rclient, redis_down,
                   backend_error>>
    /\ UNCHANGED notRate

\* an except clause that lets the exception of the record step through
PropagatesRecord(step) == step = "record"

\* the except clauses around the Redis commands (lines 120-122, 151-152,
\* 165-166) catch every exception: none leaves the step
Propagates(step) == FALSE

\* line 122: return True  # Fail open
OnCheckError == TRUE

\* dispatch with the Redis backend up to the check (lines 47-67, 105-122),
\* or all of it for an exempt path (lines 51-52);
\* workers are alike, the lowest idle one takes the request, and clients are
\* alike, they appear in the order of their numbers; when the pipeline fails
\* no command of it was executed
CheckRedis(p, c) ==
    /\ backend = "redis"
    /\ rpc[p] = "idle"
    /\ \A q \in Workers : q < p => rpc[q] # "idle"
    /\ \A k \in Clients : k < c => log[k] # <<>>
    /\ Issued < MaxRequests
    /\ \E path \in Paths :
          /\ exempt_requests' = CountPath(path)
          /\ IF Exempt(path)
             THEN UNCHANGED <<zset, zexpire, rpc, rclient, log, backend_error>>
             ELSE LET fail == redis_down
                  IN LET kept == IF fail THEN zset[c]
                                 ELSE ZRemRangeByScore(Live(c, now), now)
                         ok   == IF fail THEN OnCheckError ELSE AllowedRedis(kept)
                         out  == fail /\ Propagates("check")
                     IN  /\ zset' = [zset EXCEPT ![c] = kept]
                         \* EXPIRE sets the time to live of a key that exists
                         /\ zexpire' = [zexpire EXCEPT
                                ![c] = IF fail THEN @
                                       ELSE IF kept = {} THEN -1 ELSE now + WindowSize]
                         /\ rpc' = [rpc EXCEPT
                                ![p] = IF ok /\ ~out THEN "allowed" ELSE "idle"]
                         /\ rclient' = [rclient EXCEPT
                                ![p] = IF ok /\ ~out THEN c ELSE 1]
                         /\ log' = [log EXCEPT
                                ![c] = Append(@, [t |-> now, ok |-> ok /\ ~out,
                                                  solo |-> \A q \in Workers :
                                                              rpc[q] # "allowed",
                                                  failed |-> fail])]
                         /\ backend_error' = (backend_error \/ out)
    /\ UNCHANGED <<backend, now, ticks, requests, redis_down>>
    /\ UNCHANGED notRate

\* dispatch with the Redis backend: the record, then call_next is awaited
\* (lines 69-73, 144-152)
RecordRedis(p) ==
    /\ backend = "redis"
    /\ rpc[p] = "allowed"
    /\ LET fail == redis_down
       IN LET c   == rclient[p]
              out == fail /\ Propagates("record")
          IN  /\ zset' = [zset EXCEPT
                             ![c] = IF fail THEN @ ELSE ZAdd(Live(c, now), now)]
              \* a key created by ZADD has no time to live
              /\ zexpire' = [zexpire EXCEPT
                                ![c] = IF ~fail /\ Live(c, now) = {} THEN -1 ELSE @]
              /\ rpc' = [rpc EXCEPT ![p] = IF out THEN "idle" ELSE "handler"]
              /\ rclient' = [rclient EXCEPT ![p] = IF out THEN 1 ELSE @]
              /\ backend_error' = (backend_error \/ out)
    /\ UNCHANGED <<backend, now, ticks, requests, log, redis_down,
                   exempt_requests>>
    /\ UNCHANGED notRate

\* dispatch with the Redis backend: the handler returned, ZCARD is read for
\* the X-RateLimit-Remaining header and the response goes out (lines 73-79,
\* 158-166)
RemainingRedis(p) ==
    /\ backend = "redis"
    /\ rpc[p] = "handler"
    /\ backend_error' = (backend_error \/ (redis_down /\ Propagates("remaining")))
    /\ rpc' = [rpc EXCEPT ![p] = "idle"]
    /\ rclient' = [rclient EXCEPT ![p] = 1]
    /\ UNCHANGED <<backend, now, ticks, requests, zset, zexpire, log, redis_down,
                   exempt_requests>>
    /\ UNCHANGED notRate

\* _get_remaining (lines 158-169) for client c: ZCARD of the key, or the
\* length of the list, as it is when the handler has returned; nothing is
\* pruned here, and a failing ZCARD gives requests_per_minute
GetRemaining(c) ==
    LET count == IF backend = "redis" THEN Cardinality(Live(c, now))
                 ELSE Len(requests[c])
    IN  IF backend = "redis" /\ redis_down THEN Limit
        ELSE IF Limit - count > 0 THEN Limit - count ELSE 0

\* the Redis server or the connection to it goes away
RedisFails ==
    /\ backend = "redis"
    /\ ~redis_down
    /\ redis_down' = TRUE
    /\ UNCHANGED <<backend, now, ticks, requests, zset, zexpire, rpc, rclient, log,
                   backend_error, exempt_requests>>
    /\ UNCHANGED notRate

\* time passes; the check and the record of one request are a few statements
\* apart and read the same time
Tick(d) ==
    /\ ticks < MaxTicks
    /\ \A p \in Workers : rpc[p] # "allowed"
    /\ ticks' = ticks + 1
    /\ now' = now + d
    /\ UNCHANGED <<backend, requests, zset, zexpire, rpc, rclient, log, redis_down,
                   backend_error, exempt_requests>>
    /\ UNCHANGED notRate

NextRate ==
    \/ \E c \in Clients : DispatchMemory(c)
    \/ \E p \in Workers, c \in Clients : CheckRedis(p, c)
    \/ \E p \in Workers : RecordRedis(p)
    \/ \E p \in Workers : RemainingRedis(p)
    \/ RedisFails
    \/ \E d \in TimeSteps : Tick(d)

\* no job is submitted
IdleJobs ==
    /\ InitJobs
    /\ ~auto_approve /\ ~use_compositing /\ ~with_callback

(***************************************************************************)
(* ConversationOrchestrator.create_conversation.  A step is the code       *)
(* between two awaits; the stitcher is called synchronously.  The clip of  *)
(* line i of conversation c is the file the avatar service writes for      *)
(* output_name conv_<c>_line_<i>.                                          *)
(***************************************************************************)
NoError == [text |-> "none", line |-> -1, stage |-> "none"]

NoConversation ==
    [status |-> "none", num_exchanges |-> 0, script |-> FALSE,
     final_video_path |-> FALSE, error |-> NoError]

\* str(e) of ValueError(f"Avatar not found: {avatar_id}")
AvatarNotFound == [text |-> "avatar_not_found", line |-> -1, stage |-> "none"]

\* str(e) of an exception a collaborator raised while line i was in stage st:
\* the text is the collaborator's, it may or may not name the line and the stage
ExceptionTexts(i, st) ==
    {[text |-> "exception", line |-> -1, stage |-> "none"],
     [text |-> "exception", line |-> i, stage |-> st]}

InitConv ==
    /\ cpc = [c \in Convs |-> "idle"]
    /\ conversation = [c \in Convs |-> NoConversation]
    /\ db_conversation = [c \in Convs |-> NoConversation]
    /\ stitch_videos = [c \in Convs |-> FALSE]
    /\ add_transitions = [c \in Convs |-> FALSE]
    /\ exchanges = [c \in Convs |-> 0]
    /\ lines = [c \in Convs |-> <<>>]
    /\ db_lines = [c \in Convs |-> <<>>]
    /\ video_segments = [c \in Convs |-> <<>>]
    /\ handed = [c \in Convs |-> [called |-> FALSE, segments |-> <<>>]]

\* the file generate_video writes for line i of conversation c
Clip(c, i) == [conv |-> c, line |-> i]

\* DialogueLine(sequence=i, ...) as created at lines 185-191
NewLine(i) == [sequence |-> i, audio_path |-> FALSE, video_path |-> FALSE]

\* a loop that puts the newest clip first
AppendSegmentFirst(segs, clip) == <<clip>> \o segs

\* video_segments.append(VideoSegment(video_path=video.video_path, ...))
AppendSegment(segs, clip) == Append(segs, clip)

\* if stitch_videos and len(video_segments) > 1
ShouldStitch(stitch, segs) == stitch /\ Len(segs) > 1

\* the except-handler: status failed, commit (which flushes the session)
ConvRaise(c, conv, ls, err) ==
    /\ conversation' = [conversation EXCEPT
                            ![c] = [conv EXCEPT !.status = "failed", !.error = err]]
    /\ db_conversation' = [db_conversation EXCEPT ![c] = conversation'[c]]
    /\ lines' = [lines EXCEPT ![c] = ls]
    /\ db_lines' = [db_lines EXCEPT ![c] = ls]
    /\ cpc' = [cpc EXCEPT ![c] = "raised"]

\* the top of one loop iteration up to the await of generate_speech
BeginLine(c, conv, ls, i) ==
    /\ conversation' = [conversation EXCEPT ![c] = conv]
    /\ db_conversation' = [db_conversation EXCEPT ![c] = conv]
    /\ lines' = [lines EXCEPT ![c] = Append(ls, NewLine(i))]
    /\ db_lines' = [db_lines EXCEPT ![c] = lines'[c]]
    /\ cpc' = [cpc EXCEPT ![c] = "speech"]

\* lines 231-256 (with the except-handler when the stitcher raises)
Finish(c, conv, ls, segs, ok) ==
    IF ShouldStitch(stitch_videos[c], segs)
    THEN /\ handed' = [handed EXCEPT ![c] = [called |-> TRUE, segments |-> segs]]
         /\ IF ok
            THEN /\ conversation' = [conversation EXCEPT ![c] =
                        [conv EXCEPT !.status = "completed", !.final_video_path = TRUE]]
                 /\ db_conversation' = [db_conversation EXCEPT ![c] = conversation'[c]]
                 /\ lines' = [lines EXCEPT ![c] = ls]
                 /\ db_lines' = [db_lines EXCEPT ![c] = ls]
                 /\ cpc' = [cpc EXCEPT ![c] = "done"]
            ELSE \E err \in ExceptionTexts(-1, "stitch") : ConvRaise(c, conv, ls, err)
    ELSE /\ ok
         /\ handed' = handed
         /\ conversation' = [conversation EXCEPT ![c] = [conv EXCEPT !.status = "completed"]]
         /\ db_conversation' = [db_conversation EXCEPT ![c] = conversation'[c]]
         /\ lines' = [lines EXCEPT ![c] = ls]
         /\ db_lines' = [db_lines EXCEPT ![c] = ls]
         /\ cpc' = [cpc EXCEPT ![c] = "done"]

\* lines 98-147: the record is committed, then the avatars are loaded
StartConversation(c) ==
    /\ cpc[c] = "idle"
    /\ \A k \in Convs : k < c => cpc[k] # "idle"
    /\ \E stitch \in BOOLEAN, trans \in BOOLEAN, avatars_found \in BOOLEAN,
          num_exchanges \in RequestedCounts :
          /\ stitch_videos' = [stitch_videos EXCEPT ![c] = stitch]
          /\ add_transitions' = [add_transitions EXCEPT ![c] = trans]
          /\ LET conv == [NoConversation EXCEPT !.status = "generating",
                                                !.num_exchanges = num_exchanges]
             IN  IF avatars_found
                 THEN /\ conversation' = [conversation EXCEPT ![c] = conv]
                      /\ db_conversation' = [db_conversation EXCEPT ![c] = conv]
                      /\ cpc' = [cpc EXCEPT ![c] = "dialogue"]
                      /\ UNCHANGED <<lines, db_lines>>
                 ELSE ConvRaise(c, conv, lines[c], AvatarNotFound)
    /\ UNCHANGED <<exchanges, video_segments, handed>>
    /\ UNCHANGED notConv

\* lines 147-197: the dialogue arrives with n exchanges
DialogueReturns(c) ==
    /\ cpc[c] = "dialogue"
    /\ \E n \in 0..MaxLines, ok \in BOOLEAN :
          /\ exchanges' = [exchanges EXCEPT ![c] = n]
          /\ LET conv == [conversation[c] EXCEPT !.script = TRUE]
             IN  IF n = 0
                 THEN Finish(c, conv, lines[c], <<>>, ok)
                 ELSE /\ ok
                      /\ BeginLine(c, conv, lines[c], 0)
                      /\ handed' = handed
    /\ video_segments' = [video_segments EXCEPT ![c] = <<>>]
    /\ UNCHANGED <<stitch_videos, add_transitions>>
    /\ UNCHANGED notConv

\* a loop that drops the audio file of the line
SetAudioPathNone(ls) == ls

\* dialogue_line.audio_path = audio.audio_path (line 201), on the session
\* object of the current line; nothing is committed before the render
SetAudioPath(ls) == [ls EXCEPT ![Len(ls)].audio_path = TRUE]

\* lines 197-212: the speech of the current line arrives
SpeechReturns(c) ==
    /\ cpc[c] = "speech"
    /\ lines' = [lines EXCEPT ![c] = SetAudioPath(lines[c])]
    /\ cpc' = [cpc EXCEPT ![c] = "video"]
    /\ UNCHANGED <<conversation, db_conversation, stitch_videos, add_transitions,
                   exchanges, db_lines, video_segments, handed>>
    /\ UNCHANGED notConv

\* lines 212-256: the clip of the current line arrives
ClipReturns(c) ==
    /\ cpc[c] = "video"
    /\ LET i    == Len(lines[c]) - 1
           ls   == [lines[c] EXCEPT ![i + 1].video_path = TRUE]
           segs == AppendSegment(video_segments[c], Clip(c, i))
       IN  /\ video_segments' = [video_segments EXCEPT ![c] = segs]
           /\ \E ok \in BOOLEAN :
                 IF i + 1 < exchanges[c]
                 THEN /\ ok
                      /\ BeginLine(c, conversation[c], ls, i + 1)
                      /\ handed' = handed
                 ELSE Finish(c, conversation[c], ls, segs, ok)
    /\ UNCHANGED <<stitch_videos, add_transitions, exchanges>>
    /\ UNCHANGED notConv

\* lines 258-263: an awaited collaborator raised
ConvFails(c) ==
    /\ cpc[c] \in {"dialogue", "speech", "video"}
    /\ \E err \in ExceptionTexts(Len(lines[c]) - 1, cpc[c]) :
          ConvRaise(c, conversation[c], lines[c], err)
    /\ UNCHANGED <<stitch_videos, add_transitions, exchanges, video_segments, handed>>
    /\ UNCHANGED notConv

\* the task is cancelled while it awaits a collaborator (the caller's
\* timeout, or the request is dropped): asyncio.CancelledError is raised at
\* the await; it is a BaseException, `except Exception` (line 258) does not
\* catch it, and nothing is committed
ConvCancelled(c) ==
    /\ cpc[c] \in {"dialogue", "speech", "video"}
    /\ cpc' = [cpc EXCEPT ![c] = "cancelled"]
    /\ UNCHANGED <<conversation, db_conversation, stitch_videos, add_transitions,
                   exchanges, lines, db_lines, video_segments, handed>>
    /\ UNCHANGED notConv

NextConv ==
    \E c \in Convs :
        \/ StartConversation(c)
        \/ DialogueReturns(c)
        \/ SpeechReturns(c)
        \/ ClipReturns(c)
        \/ ConvFails(c)
        \/ ConvCancelled(c)

\* every awaited collaborator call ends: it returns, raises, or the task is
\* cancelled at the await
ConvFair ==
    \A c \in Convs :
        WF_vars(DialogueReturns(c) \/ SpeechReturns(c) \/ ClipReturns(c)
                    \/ ConvFails(c) \/ ConvCancelled(c))

(***************************************************************************)
(* VideoStitcher.stitch_conversation.  The call is synchronous; its steps  *)
(* are the subprocesses it runs.  Durations are whole time units.  ffmpeg  *)
(* and ffprobe are collaborators: a crossfade chain succeeds only when     *)
(* every fade is well-formed (see XfadeValid), and then the output is as   *)
(* long as the last offset plus the last clip.                             *)
(***************************************************************************)
NoCommand == [kind |-> "none", duration |-> 0, offsets |-> <<>>, inputs |-> <<>>]

NoVideo == [total_duration |-> -1, num_segments |-> 0]

\* all lists of clip durations of length n
ClipLists(n) == [1..n -> Durations]

InitStitch ==
    /\ spc = "idle"
    /\ \E n \in 0..MaxClips : segments \in ClipLists(n)
    /\ all_exist \in BOOLEAN
    /\ segments = <<>> => all_exist
    /\ transition_duration \in TransitionDurations
    /\ with_transitions \in BOOLEAN
    /\ layout = "none"
    /\ command = NoCommand
    /\ xfades = {}
    /\ output_len = -1
    /\ stitched = NoVideo
    /\ concat_file = FALSE
    /\ sfault = FALSE

\* the stitcher is not exercised
IdleStitch ==
    /\ spc = "idle"
    /\ segments = <<>>
    /\ all_exist = TRUE
    /\ transition_duration = 0
    /\ with_transitions = FALSE
    /\ layout = "none"
    /\ command = NoCommand
    /\ xfades = {}
    /\ output_len = -1
    /\ stitched = NoVideo
    /\ concat_file = FALSE
    /\ sfault = FALSE

\* sum(d[1..k])
RECURSIVE SumTo(_, _)
SumTo(d, k) == IF k = 0 THEN 0 ELSE d[k] + SumTo(d, k - 1)

\* _get_video_duration of every clip: the duration, or 0.0 when ffprobe fails
Probed(d, ok) == [i \in DOMAIN d |-> IF ok THEN d[i] ELSE 0]

\* an offset that takes off one transition only
OffsetOneFade(d, t, i) == SumTo(d, i) - t

\* lines 156-157: offset = sum(durations of segments 0..i-1) - t * i
Offset(d, t, i) == SumTo(d, i) - t * i

\* the xfade chain of lines 151-165: one offset per segment after the first
Offsets(d, t) == [i \in 1..(Len(d) - 1) |-> Offset(d, t, i)]

\* length of the stream the i-th xfade reads as its first input
ChainLen(d, offs, i) ==
    IF i = 1 THEN d[1] ELSE offs[i - 1] + d[i]

\* ffmpeg accepts the chain: there is one, no fade is negative or longer than
\* either of its inputs, and every fade lies inside its first input
XfadeValid(d, t, offs) ==
    /\ Len(d) >= 2
    /\ t >= 0
    /\ \A i \in DOMAIN offs :
          /\ offs[i] >= 0
          /\ t <= d[i + 1]
          /\ offs[i] + t <= ChainLen(d, offs, i)

\* duration of the output of a chain ffmpeg accepted
XfadeLen(d, offs) == offs[Len(offs)] + d[Len(d)]

\* lines 44-86, 137-177 / 91-109: check the files, build the command
StitchConversation ==
    /\ spc = "idle"
    /\ \E pok \in BOOLEAN :
          IF ~all_exist
          THEN /\ pok
               /\ spc' = "raised"
               /\ UNCHANGED <<command, xfades, concat_file, sfault>>
          ELSE IF with_transitions
          THEN /\ pok \/ Len(segments) >= 2
               /\ command' = [kind |-> "xfade", duration |-> transition_duration,
                              offsets |-> Offsets(Probed(segments, pok),
                                                  transition_duration),
                              inputs |-> segments]
               /\ xfades' = IF Len(segments) >= 2
                            THEN xfades \cup {command'} ELSE xfades
               /\ sfault' = ~pok
               /\ spc' = "xfade"
               /\ UNCHANGED concat_file
          ELSE /\ pok
               /\ command' = [NoCommand EXCEPT !.kind = "concat",
                                               !.inputs = segments]
               /\ concat_file' = TRUE
               /\ spc' = "concat"
               /\ UNCHANGED <<xfades, sfault>>
    /\ UNCHANGED <<segments, all_exist, transition_duration, with_transitions, layout, output_len,
                   stitched>>
    /\ UNCHANGED notStitch

\* a stitcher that gives up when the crossfade fails
OnXfadeErrorRaise == "raised"

\* lines 181-185: on CalledProcessError, return self._stitch_simple(...)
OnXfadeError == "concat"

\* lines 179-185: ffmpeg runs the crossfade chain; on an error the stitcher
\* falls back to _stitch_simple (lines 91-98)
RunXfade ==
    /\ spc = "xfade"
    /\ \E ok \in BOOLEAN :
          /\ ok => XfadeValid(segments, command.duration, command.offsets)
          /\ IF ok
             THEN /\ output_len' = XfadeLen(segments, command.offsets)
                  /\ spc' = "probe"
                  /\ UNCHANGED <<command, concat_file, sfault>>
             ELSE /\ command' = [NoCommand EXCEPT !.kind = "concat",
                                                  !.inputs = segments]
                  /\ concat_file' = TRUE
                  /\ spc' = OnXfadeError
                  /\ sfault' = (sfault \/ XfadeValid(segments, command.duration,
                                                     command.offsets))
                  /\ UNCHANGED output_len
    /\ UNCHANGED <<segments, all_exist, transition_duration, with_transitions, layout, xfades, stitched>>
    /\ UNCHANGED notStitch

\* lines 100-116: ffmpeg concatenates the files of concat_list.txt
RunConcat ==
    /\ spc = "concat"
    /\ \E ok \in BOOLEAN :
          /\ ok => segments # <<>>
          /\ IF ok
             THEN /\ output_len' = SumTo(segments, Len(segments))
                  /\ spc' = "probe"
                  /\ UNCHANGED sfault
             ELSE /\ spc' = "raised"
                  /\ sfault' = (sfault \/ segments # <<>>)
                  /\ UNCHANGED output_len
    /\ UNCHANGED <<segments, all_exist, transition_duration, with_transitions, layout, command, xfades,
                   stitched, concat_file>>
    /\ UNCHANGED notStitch

\* a create_split_screen that does not count the clips
LayoutAcceptedAnyCount(l, n) == l \in {"horizontal", "vertical", "grid"}

\* lines 234-248: the layouts create_split_screen builds a filter for
LayoutAccepted(l, n) ==
    \/ l = "horizontal" /\ n = 2
    \/ l = "vertical" /\ n = 2
    \/ l = "grid" /\ n = 4

\* create_split_screen (lines 213-261): choose the filter or raise ValueError,
\* then build the ffmpeg command
CreateSplitScreen ==
    /\ spc = "idle"
    /\ \E l \in Layouts :
          /\ layout' = l
          /\ IF LayoutAccepted(l, Len(segments))
             THEN /\ command' = [NoCommand EXCEPT !.kind = "split",
                                                  !.inputs = segments]
                  /\ spc' = "split"
             ELSE /\ spc' = "raised"
                  /\ UNCHANGED command
    /\ UNCHANGED <<segments, all_exist, transition_duration, with_transitions,
                   xfades, output_len, stitched, concat_file, sfault>>
    /\ UNCHANGED notStitch

\* longest clip of a non-empty list (an hstack/vstack output lasts as long as
\* its longest input)
Longest(d) == CHOOSE x \in {d[i] : i \in DOMAIN d} :
                  \A i \in DOMAIN d : d[i] <= x

\* create_split_screen (lines 268-272): ffmpeg stacks the inputs; an error is
\* logged and raised
RunSplit ==
    /\ spc = "split"
    /\ \E ok \in BOOLEAN :
          /\ ok => all_exist
          /\ IF ok
             THEN /\ output_len' = Longest(segments)
                  /\ spc' = "probe"
                  /\ UNCHANGED sfault
             ELSE /\ spc' = "raised"
                  /\ sfault' = (sfault \/ all_exist)
                  /\ UNCHANGED output_len
    /\ UNCHANGED <<segments, all_exist, transition_duration, with_transitions,
                   layout, command, xfades, stitched, concat_file>>
    /\ UNCHANGED notStitch

\* lines 118-127 / 187-193 / 274-280: ffprobe measures the output, the result
\* is returned
ProbeOutput ==
    /\ spc = "probe"
    /\ \E ok \in BOOLEAN :
          /\ stitched' = [total_duration |-> IF ok THEN output_len ELSE 0,
                          num_segments |-> Len(segments)]
          /\ sfault' = (sfault \/ ~ok)
    /\ concat_file' = IF command.kind = "concat" THEN FALSE ELSE concat_file
    /\ spc' = "done"
    /\ UNCHANGED <<segments, all_exist, transition_duration, with_transitions, layout, command, xfades,
                   output_len>>
    /\ UNCHANGED notStitch

NextStitch ==
    \/ StitchConversation
    \/ RunXfade
    \/ RunConcat
    \/ CreateSplitScreen
    \/ RunSplit
    \/ ProbeOutput

(***************************************************************************)
(* RateLimiter._get_client_id.  A header value is a string, modelled as    *)
(* the sequence of its characters; a header or request.client that is      *)
(* missing is None.  The prefixes "key:" and "ip:" and the text "unknown"  *)
(* are single tokens.                                                      *)
(***************************************************************************)
\* None, and a value that is there
Absent == [present |-> FALSE, value |-> <<>>]
Some(v) == [present |-> TRUE, value |-> v]

\* the characters of a forwarded header, and the header values tried
HeaderChars == {"a", "b", ","}
HeaderValues == UNION {[1..k -> HeaderChars] : k \in 0..MaxHeaderLen}
\* the X-API-Key values and the connection addresses tried
KeyValues == {<<>>, <<"a">>}
Hosts == {<<"a">>, <<"b">>}

\* a truth test that takes every header that was sent
TruthyPresent(h) == h.present

\* `if api_key:` / `if forwarded:` : None and the empty string are false
Truthy(h) == h.present /\ h.value # <<>>

\* str.split(','): the pieces between the commas
RECURSIVE Split(_)
Split(str) ==
    LET commas == {i \in DOMAIN str : str[i] = ","}
    IN  IF commas = {} THEN <<str>>
        ELSE LET i == CHOOSE x \in commas : \A y \in commas : x <= y
             IN  <<SubSeq(str, 1, i - 1)>> \o Split(SubSeq(str, i + 1, Len(str)))

\* _get_client_id (lines 81-96)
GetClientId(key, fwd, cl) ==
    IF Truthy(key) THEN <<"key:">> \o key.value
    ELSE IF Truthy(fwd) THEN <<"ip:">> \o Split(fwd.value)[1]
    ELSE IF cl.present THEN <<"ip:">> \o cl.value
    ELSE <<"unknown">>

InitClient ==
    /\ api_key \in {Absent} \cup {Some(v) : v \in KeyValues}
    /\ forwarded \in {Absent} \cup {Some(v) : v \in HeaderValues}
    /\ client \in {Absent} \cup {Some(h) : h \in Hosts}
    /\ client_id = <<>>

\* no request is being identified
IdleClient ==
    /\ api_key = Absent
    /\ forwarded = Absent
    /\ client = Absent
    /\ client_id = <<>>

\* dispatch, line 55: client_id = self._get_client_id(request)
ResolveClient ==
    /\ client_id = <<>>
    /\ client_id' = GetClientId(api_key, forwarded, client)
    /\ UNCHANGED <<api_key, forwarded, client>>
    /\ UNCHANGED notClient

NextClient == ResolveClient

(***************************************************************************)
(* jobs.json.  _save_jobs writes {id: job.dict()} with json.dump(...,       *)
(* default=str); the constructor of a new orchestrator reads it back with  *)
(* VideoJob(...).  A JSON value is a pair of its kind and its content.     *)
(***************************************************************************)
\* the values of JobStatus
StatusValues == {"pending", "scraping", "generating_script", "generating_image",
                 "generating_audio", "generating_video", "completed", "failed",
                 "queued_for_review"}

\* the records a job goes through, and those it can fail with
StageRecords ==
    LET r1 == NewJob
        r2 == ScriptDone(r1)
        r3 == ImageDone(r2)
        r4 == AudioDone(r3)
        r5 == CompositeDone(r4)
        rs == {r1, r2, r3, r4, r5, FinalUpdate(VideoDone(r5, TRUE)),
               FinalUpdate(VideoDone(r5, FALSE))}
    IN  rs \cup {Failed(r, e) : r \in rs, e \in {"collaborator", "callback"}}

\* an enum written by its name, as str() of a plain Enum member would be
StatusJsonName(st) == <<"str", "JobStatus.NAME">>

\* JobStatus is a str: json.dump writes the value of the member
StatusJson(st) == <<"str", st>>

\* None is written as null, a path or a message as a string
OptionalJson(set, text) == IF set THEN <<"str", text>> ELSE <<"null", "">>

\* job.dict() as json.dump writes it
Encode(rec) ==
    [status |-> StatusJson(rec.status),
     progress |-> <<"num", rec.progress>>,
     script |-> IF rec.script THEN <<"obj", "script">> ELSE <<"null", "">>,
     background_image |-> OptionalJson(rec.background_image, "background"),
     audio_file |-> OptionalJson(rec.audio_file, "audio"),
     video_file |-> OptionalJson(rec.video_file, "video"),
     error |-> OptionalJson(rec.error # "none", rec.error),
     updated_at |-> <<"str", rec.updated_at>>]

\* VideoJob(...) accepts the object
Valid(obj) ==
    /\ obj.status[1] = "str" /\ obj.status[2] \in StatusValues
    /\ obj.progress[1] = "num"
    /\ obj.updated_at[1] = "str"
    /\ obj.script[1] \in {"obj", "null"}
    /\ \A k \in {"background_image", "audio_file", "video_file", "error"} :
          obj[k][1] \in {"str", "null"}

\* VideoJob(...)
Decode(obj) ==
    [status |-> obj.status[2],
     progress |-> obj.progress[2],
     script |-> obj.script[1] = "obj",
     background_image |-> obj.background_image[1] = "str",
     audio_file |-> obj.audio_file[1] = "str",
     video_file |-> obj.video_file[1] = "str",
     error |-> IF obj.error[1] = "str" THEN obj.error[2] ELSE "none",
     updated_at |-> obj.updated_at[2]]

NoFile == [state |-> "missing", data |-> <<>>]

\* _load_jobs (lines 127-138): {} when the file is missing or anything raises
LoadJobs(file) ==
    IF /\ file.state = "written"
       /\ \A k \in DOMAIN file.data : Valid(file.data[k])
    THEN [k \in JobIds |-> IF k \in DOMAIN file.data THEN Decode(file.data[k])
                                                    ELSE NoJob]
    ELSE [k \in JobIds |-> NoJob]

InitStore ==
    /\ store_pc = "idle"
    /\ store_saved = FALSE
    /\ store_jobs \in [JobIds -> StageRecords \cup {NoJob}]
    /\ store_file = NoFile
    /\ store_loaded = [k \in JobIds |-> NoJob]

\* nothing is saved or loaded
IdleStore ==
    /\ store_pc = "idle"
    /\ store_saved = FALSE
    /\ store_jobs = [k \in JobIds |-> NoJob]
    /\ store_file = NoFile
    /\ store_loaded = [k \in JobIds |-> NoJob]

\* _save_jobs (lines 140-148): open the file for writing and dump the map; an
\* exception is logged, the file is then as it was or cut short
SaveJobs ==
    /\ store_pc = "idle"
    /\ \E res \in {"written", "untouched", "cut"} :
          /\ store_saved' = (res = "written")
          /\ store_file' =
                IF res = "written"
                THEN [state |-> "written",
                      data |-> [k \in {j \in JobIds : store_jobs[j] # NoJob}
                                   |-> Encode(store_jobs[k])]]
                ELSE IF res = "cut" THEN [state |-> "cut", data |-> <<>>]
                ELSE store_file
          /\ store_pc' = IF res = "written" THEN "saved" ELSE "save_failed"
    /\ UNCHANGED <<store_jobs, store_loaded>>
    /\ UNCHANGED notStore

\* PipelineOrchestrator(storage_dir=...) (lines 122-123): self.jobs = _load_jobs()
NewOrchestrator ==
    /\ store_pc \in {"saved", "save_failed"}
    /\ store_loaded' = LoadJobs(store_file)
    /\ store_pc' = "loaded"
    /\ UNCHANGED <<store_saved, store_jobs, store_file>>
    /\ UNCHANGED notStore

NextStore ==
    \/ SaveJobs
    \/ NewOrchestrator

(***************************************************************************)
(* batch_create_videos.  The loop awaits create_video_from_content for one *)
(* item at a time; the call either returns the job, whose record is the    *)
(* one the last stage left, or raises after the except-handler marked the  *)
(* job failed.  Jobs already in the list can be approved through the API   *)
(* while a later item is awaited.                                          *)
(***************************************************************************)
Items == 1..MaxBatch

\* the record of a job whose pipeline ran to the end
PipelineResult(auto) ==
    FinalUpdate(VideoDone(CompositeDone(AudioDone(ImageDone(ScriptDone(NewJob)))),
                          auto))

\* a loop that ends at the first item that fails
OnItemErrorStop(i) == MaxBatch + 1

\* lines 458-459: the exception is logged and the loop goes on
OnItemError(i) == i + 1

\* batch_create_videos has not been called
IdleBatch ==
    /\ batch_pc = "idle"
    /\ batch_i = 1
    /\ batch_jobs = <<>>
    /\ batch_outcome = [i \in Items |-> "none"]

\* lines 449-451: jobs = [], the loop starts
BatchCreateVideos ==
    /\ batch_pc = "idle"
    /\ batch_pc' = "loop"
    /\ UNCHANGED <<batch_i, batch_jobs, batch_outcome>>
    /\ UNCHANGED notBatch

\* lines 454-456: create_video_from_content returned; jobs.append(job)
ItemReturns ==
    /\ batch_pc = "loop"
    /\ batch_i <= MaxBatch
    /\ batch_jobs' = Append(batch_jobs, [item |-> batch_i,
                                         rec |-> PipelineResult(auto_approve)])
    /\ batch_outcome' = [batch_outcome EXCEPT ![batch_i] = "returned"]
    /\ batch_i' = batch_i + 1
    /\ UNCHANGED batch_pc
    /\ UNCHANGED notBatch

\* lines 458-459: create_video_from_content raised
ItemRaises ==
    /\ batch_pc = "loop"
    /\ batch_i <= MaxBatch
    /\ batch_outcome' = [batch_outcome EXCEPT ![batch_i] = "raised"]
    /\ batch_i' = OnItemError(batch_i)
    /\ UNCHANGED <<batch_pc, batch_jobs>>
    /\ UNCHANGED notBatch

\* approve_video on a job the batch has produced, while the loop awaits
ApproveReturned(k) ==
    /\ batch_pc = "loop"
    /\ k \in DOMAIN batch_jobs
    /\ ApproveGuard(batch_jobs[k].rec)
    /\ batch_jobs' = [batch_jobs EXCEPT ![k].rec.status = "completed"]
    /\ UNCHANGED <<batch_pc, batch_i, batch_outcome>>
    /\ UNCHANGED notBatch

\* lines 461-463: the loop is over, the list is returned
BatchReturns ==
    /\ batch_pc = "loop"
    /\ batch_i > MaxBatch
    /\ batch_pc' = "returned"
    /\ UNCHANGED <<batch_i, batch_jobs, batch_outcome>>
    /\ UNCHANGED notBatch

NextBatch ==
    \/ BatchCreateVideos
    \/ ItemReturns
    \/ ItemRaises
    \/ \E k \in Items : ApproveReturned(k)
    \/ BatchReturns

(***************************************************************************)
(* Several callers (threads, or worker processes) run stitch_conversation  *)
(* at the same time; their VideoStitcher objects have the same output_dir. *)
(* Each caller has its own clips and its own output name; a clip list is   *)
(* identified with its caller.  _stitch_simple keeps its list of inputs in *)
(* the one file output_dir/concat_list.txt.                                *)
(***************************************************************************)
Callers == 1..NumCallers

InitShared ==
    /\ asm_pc = [a \in Callers |-> "idle"]
    /\ asm_out = [a \in Callers |-> 0]
    /\ concat_list = 0

\* lines 91-98: open(concat_file, "w") and one line per clip of the caller
WriteConcatList(a) == concat_list' = a

\* stitch_conversation (lines 44-86) up to the first ffmpeg run: the
\* crossfade command, or the list file of _stitch_simple
StitchCall(a) ==
    /\ asm_pc[a] = "idle"
    /\ \E add_trans \in BOOLEAN :
          IF add_trans
          THEN /\ asm_pc' = [asm_pc EXCEPT ![a] = "xfade"]
               /\ UNCHANGED concat_list
          ELSE /\ asm_pc' = [asm_pc EXCEPT ![a] = "listed"]
               /\ WriteConcatList(a)
    /\ UNCHANGED asm_out
    /\ UNCHANGED notShared

\* lines 179-193: the crossfade run ends; when it failed, _stitch_simple is
\* entered and writes the list file
XfadeEnds(a) ==
    /\ asm_pc[a] = "xfade"
    /\ \E ok \in BOOLEAN :
          IF ok
          THEN /\ asm_pc' = [asm_pc EXCEPT ![a] = "done"]
               /\ asm_out' = [asm_out EXCEPT ![a] = a]
               /\ UNCHANGED concat_list
          ELSE /\ asm_pc' = [asm_pc EXCEPT ![a] = "listed"]
               /\ WriteConcatList(a)
               /\ UNCHANGED asm_out
    /\ UNCHANGED notShared

\* lines 100-118: ffmpeg -f concat -i concat_list.txt reads the list file as
\* it is now; without the file it fails and CalledProcessError is raised
ConcatRuns(a) ==
    /\ asm_pc[a] = "listed"
    /\ IF concat_list = 0
       THEN /\ asm_pc' = [asm_pc EXCEPT ![a] = "raised"]
            /\ UNCHANGED asm_out
       ELSE /\ asm_pc' = [asm_pc EXCEPT ![a] = "built"]
            /\ asm_out' = [asm_out EXCEPT ![a] = concat_list]
    /\ UNCHANGED concat_list
    /\ UNCHANGED notShared

\* lines 120-127: concat_file.unlink() raises FileNotFoundError when the file
\* is gone
UnlinkConcatList(a) ==
    /\ asm_pc[a] = "built"
    /\ IF concat_list = 0
       THEN asm_pc' = [asm_pc EXCEPT ![a] = "raised"]
       ELSE asm_pc' = [asm_pc EXCEPT ![a] = "done"]
    /\ concat_list' = 0
    /\ UNCHANGED asm_out
    /\ UNCHANGED notShared

NextShared ==
    \E a \in Callers :
        \/ StitchCall(a)
        \/ XfadeEnds(a)
        \/ ConcatRuns(a)
        \/ UnlinkConcatList(a)

Init ==
    InitJobs /\ IdleRate /\ InitConv /\ IdleStitch /\ IdleClient /\ IdleStore
        /\ IdleBatch /\ InitShared

Next == NextJobs

Spec == Init /\ [][Next]_vars

InitR ==
    IdleJobs /\ InitRate /\ InitConv /\ IdleStitch /\ IdleClient /\ IdleStore
        /\ IdleBatch /\ InitShared

SpecRate == InitR /\ [][NextRate]_vars

InitC ==
    IdleJobs /\ IdleRate /\ InitConv /\ IdleStitch /\ IdleClient /\ IdleStore
        /\ IdleBatch /\ InitShared

SpecConv == InitC /\ [][NextConv]_vars

SpecConvFair == SpecConv /\ ConvFair

InitS ==
    IdleJobs /\ IdleRate /\ InitConv /\ InitStitch /\ IdleClient /\ IdleStore
        /\ IdleBatch /\ InitShared

SpecStitch == InitS /\ [][NextStitch]_vars

InitI ==
    IdleJobs /\ IdleRate /\ InitConv /\ IdleStitch /\ InitClient /\ IdleStore
        /\ IdleBatch /\ InitShared

SpecClient == InitI /\ [][NextClient]_vars

InitP ==
    IdleJobs /\ IdleRate /\ InitConv /\ IdleStitch /\ IdleClient /\ InitStore
        /\ IdleBatch /\ InitShared

SpecStore == InitP /\ [][NextStore]_vars

InitB ==
    InitJobs /\ IdleRate /\ InitConv /\ IdleStitch /\ IdleClient /\ IdleStore
        /\ IdleBatch /\ InitShared

SpecBatch == InitB /\ [][NextBatch]_vars

InitA ==
    IdleJobs /\ IdleRate /\ InitConv /\ IdleStitch /\ IdleClient /\ IdleStore
        /\ IdleBatch /\ InitShared

SpecShared == InitA /\ [][NextShared]_vars

(***************************************************************************)
(* Claims about the job pipeline (checked under Spec).                     *)
(***************************************************************************)

\* the status changes the data model allows ("none": no such object)
LegalTransitions ==
    {<<"pending", "generating_script">>,
     <<"generating_script", "generating_image">>,
     <<"generating_image", "generating_audio">>,
     <<"generating_audio", "generating_video">>,
     <<"generating_video", "completed">>,
     <<"generating_video", "queued_for_review">>,
     <<"queued_for_review", "completed">>}
    \cup {<<s, "failed">> : s \in {"pending", "generating_script",
             "generating_image", "generating_audio", "generating_video"}}
    \cup {<<"none", s>> : s \in {"pending", "generating_script"}}
    \cup {<<s, "none">> : s \in {"pending", "generating_script",
             "generating_image", "generating_audio", "generating_video",
             "completed", "failed", "queued_for_review"}}

\* C1: a job's status only ever changes along
\* Pending -> Scripting -> ImageGen -> AudioGen -> VideoGen ->
\* {Completed | QueuedForReview}, to Failed from a non-terminal status, or
\* from QueuedForReview to Completed; nothing leaves Completed, and nothing
\* leaves QueuedForReview except approval.
C1_StatusPath ==
    [][\A j \in JobIds :
          \/ job'[j].status = job[j].status
          \/ <<job[j].status, job'[j].status>> \in LegalTransitions]_vars

C4_NoLateWrites ==
    \A j \in deleted :
        /\ j \notin jobs
        /\ queue_dir[j] = NoJob
        /\ lateOutputs[j] <= 1

\* the artifact files of job j still on disk
ArtifactsOf(j) == {f \in files : f[1] = j}

\* C5: after delete_video returned for a job (without any file-system fault
\* and without a stage output arriving afterwards), the record is gone from
\* self.jobs and jobs.json, the queue entry is gone, no artifact the job
\* produced is left, and get_job_status finds nothing.
C5_DeleteRemovesAll ==
    \A j \in deleted :
        faults = 0 /\ lateOutputs[j] = 0 =>
            /\ GetJobStatus(j) = NoJob
            /\ jobs_file[j] = NoJob
            /\ queue_dir[j] = NoJob
            /\ ArtifactsOf(j) = {}

\* C7 as stated: approve on a job that is already Completed succeeds.
C7_ApproveCompletedSucceeds ==
    lastCall.op = "approve" /\ lastCall.id \in jobs
        /\ job[lastCall.id].status = "completed"
    => lastCall.res = "ok"

\* C7 amended: approve on a job that is Completed or Failed is rejected
\* with the state error and changes nothing (record, file, queue, artifacts).
C7_ApproveTerminalRejected ==
    [][\A j \in jobs :
          lastCall'.op = "approve" /\ lastCall'.id = j
              /\ job[j].status \in {"completed", "failed"}
              /\ lastCall' # lastCall
          => /\ lastCall'.res = "state_error"
             /\ UNCHANGED <<jobs, job, jobs_file, queue_dir, files, removals,
                            approvals>>]_vars

\* an approve call on a Completed job was just rejected
C7_Witness ==
    \E j \in jobs :
        /\ job[j].status = "completed"
        /\ lastCall = [op |-> "approve", id |-> j, res |-> "state_error"]

\* C8: when the pipeline returns normally (no collaborator failed, no
\* callback raised, no file-system fault): without auto-approve the job is
\* QueuedForReview with progress 100, a video reference and a queue entry,
\* and after approve it is Completed with no queue entry; with auto-approve
\* it is Completed and no queue entry is ever written for it.
C8_EndToEnd ==
    \A j \in JobIds :
        /\ auto_approve => queue_dir[j] = NoJob /\ enqueued[j] = 0
        /\ pc[j] = "done" /\ faults = 0 /\ j \in jobs =>
              /\ job[j].progress = 100
              /\ job[j].video_file
              /\ job[j].error = "none"
              /\ IF auto_approve
                 THEN job[j].status = "completed"
                 ELSE IF approvals[j] = 0
                 THEN /\ job[j].status = "queued_for_review"
                      /\ queue_dir[j] # NoJob
                 ELSE /\ job[j].status = "completed"
                      /\ queue_dir[j] = NoJob

\* a job went through the review queue and was approved
C8_Witness ==
    \E j \in jobs :
        /\ ~auto_approve /\ pc[j] = "done" /\ faults = 0
        /\ enqueued[j] = 1 /\ approvals[j] = 1 /\ removals[j] = 1
        /\ job[j].status = "completed" /\ queue_dir[j] = NoJob

\* C9: a review-queue entry exists for an id exactly when a job with that
\* id exists and is QueuedForReview.
C9_QueueIffQueued ==
    \A j \in JobIds :
        queue_dir[j] # NoJob <=> (j \in jobs /\ job[j].status = "queued_for_review")

\* the job records in memory, in jobs.json and in the review-queue directory
Records == {job[j] : j \in JobIds} \cup {jobs_file[j] : j \in JobIds}
              \cup {queue_dir[j] : j \in JobIds}

\* C17: in every state, every job record (in memory, in jobs.json, in the
\* review queue) has an error if and only if its status is failed.
C17_ErrorIffFailed ==
    \A rec \in Records : (rec.error # "none") <=> (rec.status = "failed")

\* a failed job with its error is in memory and in jobs.json
C17_Witness ==
    \E j \in jobs :
        /\ job[j].status = "failed" /\ job[j].error # "none"
        /\ jobs_file[j] = job[j]

\* C18: whenever a job awaits a collaborator or has finished, also after a
\* persistence write failed, jobs.json holds the record as the last completed
\* stage left it, and a job queued for review has its queue file.
C18_PersistedReflectsStage ==
    \A j \in jobs :
        Running(j) \/ pc[j] \in {"done", "raised"} =>
            /\ jobs_file[j] = job[j]
            /\ job[j].status = "queued_for_review" => queue_dir[j] # NoJob

\* C19: after a collaborator call of a job failed, the job is failed with the
\* error recorded, jobs.json holds that record unless a write to the file
\* system failed, and from then on its pipeline takes no step: no later stage
\* runs, the failed stage is not run again, no artifact is added.
C19_FailureStops ==
    /\ [](\A j \in jobs :
            pc[j] = "raised" =>
                /\ job[j].status = "failed"
                /\ job[j].error # "none"
                /\ faults = 0 => jobs_file[j] = job[j])
    /\ [][\A j \in JobIds :
            pc[j] = "raised" =>
                /\ pc'[j] = "raised"
                /\ ArtifactsOf(j)' \subseteq ArtifactsOf(j)
                /\ lateOutputs'[j] = lateOutputs[j]
                /\ j \in jobs' => job'[j] = job[j]]_vars

\* a collaborator failed in the middle of the pipeline; the job is failed
\* and persisted
C19_Witness ==
    \E j \in jobs :
        /\ pc[j] = "raised" /\ faults = 0
        /\ job[j].error = "collaborator"
        /\ job[j].progress = 50
        /\ jobs_file[j] = job[j]

\* C20: the progress of a job is in 0..100 and, while the job is not failed,
\* no step lowers it.
C20_ProgressMonotone ==
    /\ [](\A rec \in Records : rec.progress \in 0..100)
    /\ [][\A j \in JobIds :
            job[j].status # "none" /\ job'[j].status \notin {"none", "failed"}
                => job'[j].progress >= job[j].progress]_vars

\* a job went through every milestone and was approved at progress 100
C20_Witness ==
    \E j \in jobs :
        /\ job[j].progress = 100
        /\ job[j].status = "completed"
        /\ approvals[j] = 1

\* the stage output references a record holds
Outputs(rec) ==
    {k \in {"script", "background_image", "audio_file", "video_file"} :
        \/ k = "script" /\ rec.script
        \/ k = "background_image" /\ rec.background_image
        \/ k = "audio_file" /\ rec.audio_file
        \/ k = "video_file" /\ rec.video_file}

\* C21: no step other than the delete of the job clears a stage output
\* reference of the job (in memory or in jobs.json) or removes an artifact
\* file it produced; the step that marks the job failed keeps every reference
\* and every artifact the job had.
C21_OutputsKept ==
    [][\A j \in JobIds :
          /\ (j \in jobs => j \in jobs') =>
                /\ Outputs(job[j]) \subseteq Outputs(job'[j])
                /\ ArtifactsOf(j) \subseteq ArtifactsOf(j)'
          /\ (j \in jobs /\ j \in jobs') =>
                Outputs(jobs_file[j]) \subseteq Outputs(jobs_file'[j])
          /\ (job[j].status # "failed" /\ job'[j].status = "failed") =>
                /\ Outputs(job[j]) \subseteq Outputs(job'[j])
                /\ ArtifactsOf(j) \subseteq ArtifactsOf(j)']_vars

\* the video stage failed: the job is failed and still holds the script, the
\* background image and the audio file, which are on disk
C21_Witness ==
    \E j \in jobs :
        /\ job[j].status = "failed"
        /\ Outputs(job[j]) = {"script", "background_image", "audio_file"}
        /\ {<<j, "background">>, <<j, "audio">>} \subseteq files

\* C22: an approve_video rejected because the job is not queued for review,
\* and an approve_video or delete_video of an id that is not in self.jobs,
\* change no job record, not jobs.json, not the review queue and no artifact.
C22_RejectedChangesNothing ==
    [][(lastCall' # lastCall /\ lastCall'.res \in {"state_error", "not_found"})
          => UNCHANGED <<jobs, job, jobs_file, queue_dir, files>>]_vars

\* an approve of a failed job that holds artifacts was rejected
C22_Witness ==
    /\ lastCall.op = "approve" /\ lastCall.res = "state_error"
    /\ lastCall.id \in jobs
    /\ job[lastCall.id].status = "failed"
    /\ ArtifactsOf(lastCall.id) # {}

\* C35: delivery of progress callbacks is best-effort: no job record (in
\* memory, in jobs.json, in the review queue) is marked failed with the
\* exception of a callback as its error; a job fails only when a stage fails.
C35_CallbackBestEffort ==
    \A rec \in Records : rec.error # "callback"

\* get_review_queue (lines 360-377): the records parsed from the files of the
\* queue directory
GetReviewQueue == {j \in JobIds : queue_dir[j] # NoJob}

\* C37: in every state, each job that get_review_queue returns is identical
\* (status, progress, outputs, error, timestamps) to the current record of
\* the job store with the same id.
C37_QueueMirrorsStore ==
    \A j \in GetReviewQueue : j \in jobs /\ queue_dir[j] = job[j]

(***************************************************************************)
(* Claims about the rate limiter (checked under SpecRate).                 *)
(***************************************************************************)

\* the admitted requests of client c in the window that ends with request i
AdmittedInWindow(c, i) ==
    {k \in 1..i : /\ log[c][k].ok
                  /\ log[c][k].t > log[c][i].t - WindowSize}

\* C2: under any interleaving of one client's concurrent requests, at most
\* `limit` of them are admitted within one window.
C2_AtMostLimit ==
    ~redis_down =>
        \A c \in Clients : \A i \in DOMAIN log[c] :
            log[c][i].ok => Cardinality(AdmittedInWindow(c, i)) <= Limit

\* C6: a client without prior requests that issues its requests one after
\* the other at one instant is admitted on the first `limit` and denied on
\* the next; once more than the window has passed it is admitted again.
C6_BurstThenDenied ==
    \A c \in Clients : \A i \in DOMAIN log[c] :
        (~redis_down /\ \A k \in 1..i : log[c][k].solo) =>
            /\ (i <= Limit /\ log[c][i].t = log[c][1].t) => log[c][i].ok
            /\ (i = Limit + 1 /\ log[c][i].t = log[c][1].t) => ~log[c][i].ok
            /\ (\A k \in 1..(i - 1) : log[c][i].t > log[c][k].t + WindowSize)
                  => log[c][i].ok

\* the number of timestamps an admission check made now would count
RetainedCount(c) ==
    IF backend = "memory" THEN Len(CleanOld(requests[c], now))
    ELSE Cardinality(ZRemRangeByScore(Live(c, now), now))

\* the requests of client c admitted within the window that ends now
AdmittedRecent(c) ==
    {k \in DOMAIN log[c] : log[c][k].ok /\ log[c][k].t > now - WindowSize}

\* C30: with either backend (Redis reachable, no admitted request still to be
\* recorded), the timestamps an admission check counts for a client are as
\* many as the requests the client was admitted for within the window, also
\* when requests share a timestamp; and a request is denied only when `limit`
\* requests were admitted within the window before it.
C30_CountIsAdmitted ==
    (~redis_down /\ \A p \in Workers : rpc[p] # "allowed") =>
        \A c \in Clients :
            /\ RetainedCount(c) = Cardinality(AdmittedRecent(c))
            /\ \A i \in DOMAIN log[c] :
                  ~log[c][i].ok =>
                      Cardinality({k \in 1..(i - 1) :
                                      /\ log[c][k].ok
                                      /\ log[c][k].t > log[c][i].t - WindowSize})
                          >= Limit

\* the list the in-memory backend retains after the first k requests of l
RECURSIVE MemoryAfter(_, _)
MemoryAfter(l, k) ==
    IF k = 0 THEN <<>>
    ELSE LET kept == CleanOld(MemoryAfter(l, k - 1), l[k].t)
         IN  IF AllowedMemory(kept) THEN RecordMemory(kept, l[k].t) ELSE kept

\* the answer of the in-memory backend to request k of l
MemoryDecision(l, k) == AllowedMemory(CleanOld(MemoryAfter(l, k - 1), l[k].t))

\* C33: when the Redis backend served the requests of a client one after the
\* other and no command failed, every request got the decision the in-memory
\* backend gives for the same sequence of timestamps, also when requests
\* share a timestamp and at the window boundary.
C33_BackendsAgree ==
    \A c \in Clients :
        (backend = "redis"
            /\ \A i \in DOMAIN log[c] : log[c][i].solo /\ ~log[c][i].failed) =>
        \A i \in DOMAIN log[c] : log[c][i].ok = MemoryDecision(log[c], i)

\* C39: when the handler of an admitted request has returned, however long
\* it took, the remaining count put in X-RateLimit-Remaining is
\* max(0, limit - number of the client's requests within the window that ends
\* at that moment); older requests are not counted.  (Stated for the case in
\* which Redis is reachable, no command failed, no other request is between
\* its check and its record, and the admitted requests have distinct
\* timestamps.)
C39_RemainingIsWindowCount ==
    [][\A p \in Workers :
          (/\ rpc[p] = "handler" /\ rpc'[p] = "idle"
           /\ ~redis_down
           /\ \A q \in Workers : rpc[q] # "allowed"
           /\ \A i, k \in DOMAIN log[rclient[p]] :
                  /\ ~log[rclient[p]][i].failed
                  /\ i # k => log[rclient[p]][i].t # log[rclient[p]][k].t)
          => LET n == Cardinality(AdmittedRecent(rclient[p]))
             IN  GetRemaining(rclient[p]) = IF Limit - n > 0 THEN Limit - n ELSE 0]_vars

\* C38: a denied request is not recorded: the step that denies a request of
\* a client leaves the timestamps retained for the client within the window as
\* they were (only expired ones are dropped) and starts no record step; and a
\* request for an exempt path is neither checked nor recorded: it leaves the
\* limiter's lists, sorted sets, expiry times, decisions and workers alone.
C38_DeniedNotRecorded ==
    [][/\ \A c \in Clients :
            (/\ Len(log'[c]) = Len(log[c]) + 1
             /\ ~log'[c][Len(log'[c])].ok)
            => /\ requests'[c] = CleanOld(requests[c], now)
               /\ zset'[c] = ZRemRangeByScore(Live(c, now), now)
               /\ rpc' = rpc
       /\ exempt_requests' # exempt_requests
            => UNCHANGED <<requests, zset, zexpire, log, rpc, rclient>>]_vars

\* a client at the limit was denied, with either backend
C38_Witness ==
    \E c \in Clients :
        /\ Len(log[c]) = Limit + 1
        /\ ~log[c][Limit + 1].ok
        /\ \A i \in 1..Limit : log[c][i].ok
        /\ RetainedCount(c) = Limit

(***************************************************************************)
(* Claims about conversations (checked under SpecConv).                    *)
(***************************************************************************)

\* C10: the list of clips handed to the stitcher holds the clip of every
\* dialogue line exactly once, in increasing sequence order.
C10_ClipsInSequenceOrder ==
    \A c \in Convs :
        handed[c].called =>
            /\ Len(handed[c].segments) = exchanges[c]
            /\ \A k \in 1..exchanges[c] :
                  /\ handed[c].segments[k] = Clip(c, k - 1)
                  /\ lines[c][k].sequence = k - 1

\* a conversation of three lines has been stitched
C10_Witness ==
    \E c \in Convs :
        /\ handed[c].called
        /\ exchanges[c] = MaxLines
        /\ conversation[c].status = "completed"

\* C40: provided every collaborator call ends (by returning, by failing, or
\* by a timeout or cancellation), every conversation that create_conversation
\* started eventually is completed or failed; none stays generating forever.
C40_EventuallyTerminal ==
    \A c \in Convs :
        (conversation[c].status = "generating")
            ~> (conversation[c].status \in {"completed", "failed"})

(***************************************************************************)
(* Claims about the stitcher (checked under SpecStitch).                   *)
(***************************************************************************)

\* C11: for a non-empty list of clips, when ffmpeg and ffprobe do not fail on
\* a well-formed command, stitching with transitions returns total_duration
\* = sum(d) - (n - 1) * t, and stitching without returns sum(d).
C11_TotalDuration ==
    spc = "done" /\ layout = "none" /\ ~sfault /\ segments # <<>> =>
        stitched.total_duration =
            IF with_transitions
            THEN SumTo(segments, Len(segments))
                    - (Len(segments) - 1) * transition_duration
            ELSE SumTo(segments, Len(segments))

\* the shortest clip
MinDuration(d) == CHOOSE m \in {d[i] : i \in DOMAIN d} : \A i \in DOMAIN d : m <= d[i]

\* C12: no crossfade command is issued with a transition_duration that is
\* negative or at least as long as the shortest clip.
C12_NoMalformedCrossfade ==
    \A c \in xfades :
        /\ c.duration >= 0
        /\ c.duration < MinDuration(segments)

\* C23: stitch_conversation given an empty list of clips, or a clip whose
\* file does not exist, ends with an error without having run ffmpeg and
\* without having written concat_list.txt or an output file.
C23_FailsClosed ==
    (layout = "none" /\ spc # "idle" /\ (segments = <<>> \/ ~all_exist)) =>
        /\ spc = "raised"
        /\ command = NoCommand
        /\ xfades = {}
        /\ ~concat_file
        /\ output_len = -1

\* C24: when ffmpeg fails on the crossfade command, the stitcher goes on to
\* concatenate the same clips in the same order; the StitchedVideo it then
\* returns is that of the concatenation; and a stitch with transitions of
\* existing clips ends with an error only after the concatenation was tried.
C24_FallbackToConcat ==
    /\ [][(spc = "xfade" /\ spc' \notin {"xfade", "probe"}) =>
              /\ spc' = "concat"
              /\ command'.kind = "concat"
              /\ command'.inputs = segments]_vars
    /\ []((layout = "none" /\ with_transitions /\ spc = "done"
               /\ command.kind = "concat") =>
               (/\ output_len = SumTo(segments, Len(segments))
                /\ stitched.num_segments = Len(segments)
                /\ stitched.total_duration \in {output_len, 0}))
    /\ []((layout = "none" /\ with_transitions /\ all_exist
               /\ spc = "raised") => command.kind = "concat")

\* ffmpeg failed on a well-formed crossfade of three clips and the result of
\* the concatenation was returned
C24_Witness ==
    /\ spc = "done" /\ layout = "none" /\ with_transitions
    /\ Len(segments) = 3
    /\ XfadeValid(segments, transition_duration,
                  Offsets(segments, transition_duration))
    /\ command.kind = "concat"
    /\ stitched.total_duration = SumTo(segments, 3)

\* the number of clips each layout has room for
SlotCount == [l \in {"horizontal", "vertical"} |-> 2] @@ [l \in {"grid"} |-> 4]

\* C25: create_split_screen runs ffmpeg, and can return a video, only when
\* the layout is known and the number of clips is its slot count; for every
\* other layout and count it raises before ffmpeg is run.
C25_SplitScreenValidation ==
    layout # "none" =>
        IF layout \in DOMAIN SlotCount /\ Len(segments) = SlotCount[layout]
        THEN command.kind = "split"
        ELSE /\ spc = "raised"
             /\ command = NoCommand
             /\ output_len = -1
             /\ stitched = NoVideo

\* a grid of four clips was stacked and returned
C25_Witness ==
    /\ layout = "grid" /\ Len(segments) = 4
    /\ spc = "done"
    /\ stitched.num_segments = 4

\* duration of the output built from the first k clips with crossfades of t
RECURSIVE BuiltDuration(_, _, _)
BuiltDuration(d, t, k) ==
    IF k = 1 THEN d[1] ELSE BuiltDuration(d, t, k - 1) + d[k] - t

\* C29: when ffprobe reads every clip, the offset of the crossfade that joins
\* clip i to the output built from the clips before it is the duration of
\* that output less the transition.
C29_OffsetFromBuiltOutput ==
    (spc = "xfade" /\ ~sfault) =>
        \A i \in 1..(Len(segments) - 1) :
            command.offsets[i] =
                BuiltDuration(segments, command.duration, i) - command.duration

\* the crossfade command of three clips with a transition shorter than each
C29_Witness ==
    /\ spc = "xfade" /\ ~sfault
    /\ Len(segments) = 3
    /\ transition_duration = 1
    /\ \A i \in 1..3 : segments[i] = 2
    /\ command.offsets = <<1, 2>>

\* C13: a create_conversation call with an avatar id that resolves to no
\* profile leaves no conversation record behind, neither in the session nor
\* committed.
C13_UnknownAvatarNoRecord ==
    \A c \in Convs :
        conversation[c].error = AvatarNotFound =>
            db_conversation[c] = NoConversation

\* the speech or the clip of the current line of conversation c failed
LineFailed(c) ==
    /\ cpc[c] = "raised"
    /\ lines[c] # <<>>
    /\ ~lines[c][Len(lines[c])].video_path

\* the stage the current line of conversation c was in
StageOfLine(c) == IF lines[c][Len(lines[c])].audio_path THEN "video" ELSE "speech"

\* C14: when the speech or the clip of a line fails, the conversation is
\* failed, nothing was handed to the stitcher, no final video is set, and the
\* error names the line and the stage that failed.
C14_LineFailure ==
    \A c \in Convs :
        LineFailed(c) =>
            /\ conversation[c].status = "failed"
            /\ db_conversation[c].status = "failed"
            /\ ~handed[c].called
            /\ ~conversation[c].final_video_path
            /\ conversation[c].error.line = Len(lines[c]) - 1
            /\ conversation[c].error.stage = StageOfLine(c)

\* C16: a finished conversation has one rendered DialogueLine per exchange
\* the dialogue generator returned, and the count recorded on the
\* conversation is that number.
C16_ActualLineCount ==
    \A c \in Convs :
        cpc[c] = "done" =>
            /\ Len(lines[c]) = exchanges[c]
            /\ \A k \in DOMAIN lines[c] : lines[c][k].video_path
            /\ conversation[c].num_exchanges = exchanges[c]

\* the DialogueLine objects of the session and the committed rows
AllLines == UNION {{lines[c][i] : i \in DOMAIN lines[c]} : c \in Convs}
              \cup UNION {{db_lines[c][i] : i \in DOMAIN db_lines[c]} : c \in Convs}

\* C31: in every state every dialogue line, in the session and as committed,
\* also after a failed render and after the failure handler committed, has a
\* clip reference only if it has an audio reference.
C31_ClipOnlyAfterAudio ==
    \A l \in AllLines : l.video_path => l.audio_path

\* a render failed after the audio arrived and the handler committed the line,
\* while an earlier line was committed with both references
C31_Witness ==
    \E c \in Convs :
        /\ cpc[c] = "raised" /\ Len(db_lines[c]) >= 2
        /\ db_lines[c][1].video_path /\ db_lines[c][1].audio_path
        /\ db_lines[c][Len(db_lines[c])].audio_path
        /\ ~db_lines[c][Len(db_lines[c])].video_path

\* C32: whenever a conversation is completed, whatever its actual number of
\* lines (0 and 1 included) and whatever the stitch option, every line has a
\* clip reference and the final media path is set.
C32_CompletedHasFinalVideo ==
    \A c \in Convs :
        conversation[c].status = "completed" =>
            /\ \A i \in DOMAIN lines[c] : lines[c][i].video_path
            /\ conversation[c].final_video_path
            /\ db_conversation[c].final_video_path

\* C36: while the render of a line is awaited, the committed row of that line
\* has its audio reference; when the next line starts or the loop ends, the
\* committed row of the rendered line has its clip reference.
C36_PersistedAfterAudioAndClip ==
    \A c \in Convs :
        /\ cpc[c] = "video" => db_lines[c][Len(db_lines[c])].audio_path
        /\ cpc[c] \in {"speech", "done"} =>
              \A i \in DOMAIN db_lines[c] :
                  i < Len(db_lines[c]) \/ cpc[c] = "done" => db_lines[c][i].video_path

\* C15: a request whose check failed in the Redis backend is admitted, and
\* no failure of a Redis command (check, record, remaining count) reaches the
\* caller as an error.
C15_FailOpen ==
    /\ ~backend_error
    /\ \A c \in Clients : \A i \in DOMAIN log[c] :
          log[c][i].failed => log[c][i].ok

\* with the limit used up in the window, a request whose check failed in
\* Redis was admitted
C15_Witness ==
    \E c \in Clients : \E i \in DOMAIN log[c] :
        /\ log[c][i].failed /\ log[c][i].ok
        /\ Cardinality(AdmittedInWindow(c, i)) > Limit

(***************************************************************************)
(* Claims about the client identifier (checked under SpecClient).          *)
(***************************************************************************)

\* the first of the comma-separated values of a header
FirstValue(str) ==
    LET commas == {i \in DOMAIN str : str[i] = ","}
    IN  IF commas = {} THEN str
        ELSE SubSeq(str, 1, (CHOOSE x \in commas : \A y \in commas : x <= y) - 1)

\* C26 as stated: the identifier is the API key if the request carries the
\* X-API-Key header, else the first value of X-Forwarded-For if the request
\* carries that header, else the connection address, else "unknown".
C26_ResolutionOrder ==
    client_id # <<>> =>
        client_id =
            IF api_key.present THEN <<"key:">> \o api_key.value
            ELSE IF forwarded.present
                 THEN <<"ip:">> \o FirstValue(forwarded.value)
            ELSE IF client.present THEN <<"ip:">> \o client.value
            ELSE <<"unknown">>

\* C26 amended: the identifier is the API key if X-API-Key is present and not
\* empty, else the first value of X-Forwarded-For if that header is present
\* and not empty, else the connection address, else "unknown"; a header
\* whose value is empty counts as missing.
C26_ResolutionOrderNonEmpty ==
    client_id # <<>> =>
        client_id =
            IF api_key.present /\ api_key.value # <<>>
            THEN <<"key:">> \o api_key.value
            ELSE IF forwarded.present /\ forwarded.value # <<>>
                 THEN <<"ip:">> \o FirstValue(forwarded.value)
            ELSE IF client.present THEN <<"ip:">> \o client.value
            ELSE <<"unknown">>

\* a request with an empty X-API-Key and X-Forwarded-For "a,b" from address b
\* was identified by the first forwarded value
C26_Witness ==
    /\ api_key = Some(<<>>)
    /\ forwarded = Some(<<"a", ",", "b">>)
    /\ client = Some(<<"b">>)
    /\ client_id = <<"ip:", "a">>

(***************************************************************************)
(* Claims about jobs.json (checked under SpecStore).                       *)
(***************************************************************************)

\* C27: after _save_jobs wrote the job map, an orchestrator constructed on the
\* same storage directory holds the same ids and, for each id, the same
\* status, progress, error and artifact references.
C27_RoundTrip ==
    (store_pc = "loaded" /\ store_saved) =>
        \A k \in JobIds :
            /\ (store_loaded[k] = NoJob) <=> (store_jobs[k] = NoJob)
            /\ store_loaded[k].status = store_jobs[k].status
            /\ store_loaded[k].progress = store_jobs[k].progress
            /\ store_loaded[k].error = store_jobs[k].error
            /\ store_loaded[k].updated_at = store_jobs[k].updated_at
            /\ Outputs(store_loaded[k]) = Outputs(store_jobs[k])

\* a failed job that holds a script and a background image was saved and
\* loaded again
C27_Witness ==
    /\ store_pc = "loaded" /\ store_saved
    /\ \E k \in JobIds :
          /\ store_loaded[k].status = "failed"
          /\ store_loaded[k].error = "collaborator"
          /\ store_loaded[k].progress = 50
          /\ Outputs(store_loaded[k]) = {"script", "background_image"}

(***************************************************************************)
(* Claims about batch_create_videos (checked under SpecBatch).             *)
(***************************************************************************)

\* the items whose pipeline returned a job
Succeeded == {i \in Items : batch_outcome[i] = "returned"}

\* C28: the items are processed one at a time in input order; a failed item
\* does not stop the loop; and the list returned holds exactly the jobs of
\* the items whose pipeline succeeded, in input order, each completed or
\* queued for review.
C28_BatchReturnsSucceeded ==
    /\ \A i \in Items :
          batch_outcome[i] # "none" =>
              \A k \in 1..(i - 1) : batch_outcome[k] # "none"
    /\ batch_pc = "returned" =>
          /\ \A i \in Items : batch_outcome[i] # "none"
          /\ {batch_jobs[k].item : k \in DOMAIN batch_jobs} = Succeeded
          /\ Len(batch_jobs) = Cardinality(Succeeded)
          /\ \A k, l \in DOMAIN batch_jobs :
                k < l => batch_jobs[k].item < batch_jobs[l].item
          /\ \A k \in DOMAIN batch_jobs :
                batch_jobs[k].rec.status \in {"completed", "queued_for_review"}

\* the first item failed, the second was processed and is the only job of
\* the list returned
C28_Witness ==
    /\ batch_pc = "returned"
    /\ batch_outcome[1] = "raised"
    /\ batch_outcome[MaxBatch] = "returned"
    /\ Len(batch_jobs) >= 1
    /\ batch_jobs[Len(batch_jobs)].item = MaxBatch

(***************************************************************************)
(* Claims about concurrent stitcher calls (checked under SpecShared).      *)
(***************************************************************************)

\* C34: assemblies that run at the same time on disjoint clip lists with
\* distinct output names, sharing the output directory, do not interfere:
\* under every interleaving none raises because of another, and the output
\* file of each holds the concatenation of its own clips.
C34_NoInterference ==
    \A a \in Callers :
        /\ asm_pc[a] # "raised"
        /\ asm_out[a] \in {0, a}

====
